---- MODULE Spec2Model ----
(***************************************************************************)
(* A model of ts-linqlite: the lazy generator stages, the terminal         *)
(* operations and the LinqWrapper of the library, over a heap of JavaScript *)
(* objects (arrays and generator objects) that follow the iteration         *)
(* protocol: obj[Symbol.iterator](), iterator.next(), iterator.return().    *)
(*                                                                         *)
(* The repository holds two copies of the library: src/src/LinqLite.ts and  *)
(* the listing in src/README.md.  An operation that src/src/LinqLite.ts     *)
(* defines is modelled from that file; an operation only the listing        *)
(* defines is modelled from the listing.                                    *)
(***************************************************************************)
EXTENDS Integers, Sequences, FiniteSets, TLC

VARIABLES heap, calls, pulls, travs, results

vars == <<heap, calls, pulls, travs, results>>

(***************************************************************************)
(* Bounds of the model.                                                    *)
(***************************************************************************)
MaxLen == 2
MaxTravs == 2

(***************************************************************************)
(* JavaScript values.  A value is a tag and an integer: number n, boolean  *)
(* (n = 1 is true), a string of length n (n = 0 is ""), and undefined.     *)
(* Numbers are counted in units of Unit, so that Number.MIN_VALUE, the     *)
(* smallest positive double, lies strictly between 0 and the number 1.     *)
(***************************************************************************)
Num(n) == [t |-> "number", n |-> n]

Bool(b) == [t |-> "boolean", n |-> IF b THEN 1 ELSE 0]

Str(n) == [t |-> "string", n |-> n]

Undefined == [t |-> "undefined", n |-> 0]

\* JavaScript's ToBoolean, as applied by `!element`.
Truthy(v) == v.t # "undefined" /\ v.n # 0

(***************************************************************************)
(* Caller-supplied functions, named by strings.  The second argument is    *)
(* the index the library passes, or Undefined when it passes none.         *)
(***************************************************************************)
Predicates == {"always", "odd", "isTwo", "atIndex0"}

ApplyPredicate(p, e, i) ==
    CASE p = "always" -> TRUE
      [] p = "never" -> FALSE
      [] p = "odd" -> e.t = "number" /\ e.n % 2 = 1
      [] p = "isTwo" -> e = Num(2)
      [] p = "positive" -> e.t = "number" /\ e.n > 0
      [] p = "atIndex0" -> i = Num(0)
      [] p = "fromIndex1" -> i.t = "number" /\ i.n >= 1
      [] p = "notNumber" -> e.t # "number"
      [] p = "failsOnTwo" -> TRUE

Selectors == {"valueOf", "negate", "index"}

ApplySelector(f, e, i) ==
    CASE f = "valueOf" -> e
      [] f = "negate" -> Num(0 - e.n)
      [] f = "index" -> i
      [] f = "failsOnTwo" -> e

\* One-to-many selectors of selectMany: the iterable returned for an element.
ManySelectors == {"twice", "indexTimes"}

ApplyManySelector(f, e, i) ==
    CASE f = "twice" -> <<e, e>>
      [] f = "indexTimes" -> IF i = Num(1) THEN <<e>> ELSE <<>>

Comparers == {"strictEquals", "sameParity"}

ApplyComparer(c, a, b) ==
    CASE c = "strictEquals" -> a = b
      [] c = "sameParity" -> a.n % 2 = b.n % 2
      [] c = "lessThan" -> a.n < b.n
      [] c = "failsOnTwo" -> a = b

ResultSelectors == {"add", "second"}

ApplyResultSelector(f, a, b) ==
    CASE f = "add" -> Num(a.n + b.n)
      [] f = "second" -> b

Hashes == {"valueOf", "parity"}

ApplyHash(h, e) ==
    CASE h = "valueOf" -> e.n
      [] h = "parity" -> e.n % 2
      [] h = "constant" -> 0
      [] h = "failsOnTwo" -> e.n

(***************************************************************************)
(* The heap.  Object ids are positions in heap.  An array holds items; a   *)
(* generator object holds the arguments of the generator function that     *)
(* made it, its state (suspendedStart, suspendedYield, completed) and its  *)
(* local variables.  An iterator handle is the object it iterates and, for *)
(* an array iterator, the position reached.                                *)
(***************************************************************************)
NoIter == [obj |-> 0, pos |-> 0]

MkArray(items) ==
    [type |-> "array", kind |-> "array", items |-> items,
     src |-> 0, src2 |-> 0, fn |-> "", n |-> 0, dflt |-> Undefined,
     st |-> "completed", it |-> NoIter, it2 |-> NoIter, index |-> 0,
     seen |-> <<>>, hset |-> {}, flag |-> FALSE, phase |-> 0]

MkGen(kind, src, src2, fn, n, dflt) ==
    [type |-> "generator", kind |-> kind, items |-> <<>>,
     src |-> src, src2 |-> src2, fn |-> fn, n |-> n, dflt |-> dflt,
     st |-> "suspendedStart", it |-> NoIter, it2 |-> NoIter, index |-> 0,
     seen |-> <<>>, hset |-> {}, flag |-> FALSE, phase |-> 0]

\* new LinqWrapper(iterable).  It holds iterable in src; kind, src2 and fn
\* remember the method that made it, the wrapper the method was called on and
\* the argument the caller gave.
MkWrapper(iterable, method, this, fn) ==
    [type |-> "wrapper", kind |-> method, items |-> <<>>,
     src |-> iterable, src2 |-> this, fn |-> fn, n |-> 0, dflt |-> Undefined,
     st |-> "completed", it |-> NoIter, it2 |-> NoIter, index |-> 0,
     seen |-> <<>>, hset |-> {}, flag |-> FALSE, phase |-> 0]

\* The world an operation runs in and changes.  `thrown` is the exception
\* that is unwinding the stack ("" for none): the library has no try, catch
\* or finally, so once a function of the caller has thrown, nothing more is
\* called or pulled until the exception reaches the library's caller.
World == [heap |-> heap, calls |-> calls, pulls |-> pulls, thrown |-> ""]

\* The caller's function failsOnTwo throws when an argument is 2; applied
\* to anything else it is the always predicate, the identity selector or
\* hash, or strict equality.
Failure == "failsOnTwo failed"

Fails(fn, a, b) == fn = "failsOnTwo" /\ (a = Num(2) \/ b = Num(2))

LogCall(w, by, fn, a, b) ==
    IF w.thrown # "" THEN w
    ELSE [w EXCEPT !.calls = Append(@, [by |-> by, fn |-> fn, a |-> a, b |-> b]),
                   !.thrown = IF Fails(fn, a, b) THEN Failure ELSE ""]

LogPull(w, by, from, got) ==
    IF w.thrown # "" THEN w
    ELSE [w EXCEPT !.pulls = Append(@, [by |-> by, from |-> from, got |-> got])]

\* What iterator.next() returns, with the world and the handle after it.
IterResult(w, h, done, value) == [w |-> w, h |-> h, done |-> done, value |-> value]

Yield(w, id, value) ==
    IterResult([w EXCEPT !.heap[id].st = "suspendedYield"], NoIter, FALSE, value)

Finish(w, id) ==
    IterResult([w EXCEPT !.heap[id].st = "completed"], NoIter, TRUE, Undefined)

RECURSIVE IterNext(_, _, _)
RECURSIVE IterReturn(_, _)
RECURSIVE Resume(_, _)
RECURSIVE whereLoop(_, _)
RECURSIVE selectLoop(_, _)
RECURSIVE takeLoop(_, _)
RECURSIVE skipLoop(_, _)
RECURSIVE selectManyLoop(_, _)
RECURSIVE takeWhileLoop(_, _)
RECURSIVE skipWhileLoop(_, _)
RECURSIVE assertTypeLoop(_, _)
RECURSIVE concatLoop(_, _)
RECURSIVE distinctLoop(_, _)
RECURSIVE distinctHashLoop(_, _)
RECURSIVE exceptLoop(_, _)
RECURSIVE exceptHashLoop(_, _)
RECURSIVE intersectLoop(_, _)
RECURSIVE intersectHashLoop(_, _)
RECURSIVE unionLoop(_, _)
RECURSIVE unionHashLoop(_, _)
RECURSIVE containsLoop(_, _, _, _, _)
RECURSIVE containsItems(_, _, _, _, _)
RECURSIVE makeHashSetLoop(_, _, _, _, _)
RECURSIVE toArrayLoop(_, _, _, _)
RECURSIVE firstOrUndefinedLoop(_, _, _, _)
RECURSIVE lastOrUndefinedForArray(_, _, _, _)
RECURSIVE lastOrUndefinedLoop(_, _, _, _, _)
RECURSIVE singleOrUndefinedLoop(_, _, _, _, _)
RECURSIVE elementAtOrUndefinedLoop(_, _, _, _, _)
RECURSIVE minLoop(_, _, _, _, _)
RECURSIVE maxLoop(_, _, _, _, _)

\* obj[Symbol.iterator](): a fresh array iterator, the generator itself, or
\* for a LinqWrapper this.iterable[Symbol.iterator]().
RECURSIVE GetIterator(_, _)
GetIterator(w, id) ==
    IF w.heap[id].type = "wrapper"
    THEN GetIterator(w, w.heap[id].src)
    ELSE [obj |-> id, pos |-> 0]

\* What next() of a generator object returns once its body has run to r.  An
\* exception thrown in the body completes the generator, closes the for-of
\* loops it was in and goes on to the caller of next().
Resumed(r, by, h) ==
    IF r.w.thrown # ""
    THEN IterResult(IterReturn([r.w EXCEPT !.heap[h.obj].st = "suspendedYield"], h),
                    h, TRUE, Undefined)
    ELSE IterResult(LogPull(r.w, by, h.obj, ~r.done), h, r.done, r.value)

\* iterator.next(), called by object `by` (0 is the library's caller).
IterNext(w, by, h) ==
    LET o == w.heap[h.obj] IN
    IF w.thrown # "" THEN IterResult(w, h, TRUE, Undefined)
    ELSE IF o.type = "array"
         THEN IF h.pos < Len(o.items)
              THEN IterResult(LogPull(w, by, h.obj, TRUE), [h EXCEPT !.pos = @ + 1],
                              FALSE, o.items[h.pos + 1])
              ELSE IterResult(LogPull(w, by, h.obj, FALSE), h, TRUE, Undefined)
         ELSE Resumed(Resume(w, h.obj), by, h)

\* The iterators a suspended generator's for-of loops close when it is closed.
OpenLoops(o) ==
    IF o.kind \in {"zip", "defaultIfEmpty", "undefinedIfEmpty", "reverse", "naturals"}
    THEN <<>>
    ELSE <<o.it>>

RECURSIVE ReturnAll(_, _)
ReturnAll(w, hs) ==
    IF hs = <<>> THEN w
    ELSE IF Head(hs) = NoIter THEN ReturnAll(w, Tail(hs))
    ELSE ReturnAll(IterReturn(w, Head(hs)), Tail(hs))

\* iterator.return(): an array iterator has none; a generator completes, and
\* the for-of loops it is suspended in close their iterators.
IterReturn(w, h) ==
    LET o == w.heap[h.obj] IN
    IF o.type = "array" \/ o.st = "completed" THEN w
    ELSE IF o.st = "suspendedStart"
         THEN [w EXCEPT !.heap[h.obj].st = "completed"]
         ELSE ReturnAll([w EXCEPT !.heap[h.obj].st = "completed"], OpenLoops(o))

\* The loop keeps the iterator it pulls from.
KeepIterator(r, id) == [r EXCEPT !.w.heap[id].it = r.h]

\* for (let item of source): the loop's next(), its iterator kept in `it`.
ForOfNext(w, id) == KeepIterator(IterNext(w, id, w.heap[id].it), id)

\* Entering `for (let item of source)`.
ForOfEnter(w, id) == [w EXCEPT !.heap[id].it = GetIterator(w, w.heap[id].src)]

whereLoop(w, id) ==
    LET r == ForOfNext(w, id) IN
    IF r.done THEN Finish(r.w, id)
    ELSE LET o == r.w.heap[id]
             w1 == LogCall(r.w, id, o.fn, r.value, Undefined)
         IN IF ApplyPredicate(o.fn, r.value, Undefined)
            THEN Yield(w1, id, r.value)
            ELSE whereLoop(w1, id)

where(w, id) ==
    IF w.heap[id].st = "suspendedStart"
    THEN whereLoop(ForOfEnter(w, id), id)
    ELSE whereLoop(w, id)

selectLoop(w, id) ==
    LET r == ForOfNext(w, id) IN
    IF r.done THEN Finish(r.w, id)
    ELSE LET o == r.w.heap[id] IN
         Yield(LogCall(r.w, id, o.fn, r.value, Undefined), id,
               ApplySelector(o.fn, r.value, Undefined))

select(w, id) ==
    IF w.heap[id].st = "suspendedStart"
    THEN selectLoop(ForOfEnter(w, id), id)
    ELSE selectLoop(w, id)

\* A take that would stop one element later: where C28 looks.
takeLoopOneMore(w, id) ==
    LET r == ForOfNext(w, id) IN
    IF r.done THEN Finish(r.w, id)
    ELSE LET o == r.w.heap[id] IN
         IF o.index <= o.n
         THEN Yield(r.w, id, r.value)
         ELSE Finish(IterReturn(r.w, o.it), id)

takeLoop(w, id) ==
    LET r == ForOfNext(w, id) IN
    IF r.done THEN Finish(r.w, id)
    ELSE LET o == r.w.heap[id] IN
         IF o.index < o.n
         THEN Yield(r.w, id, r.value)
         ELSE Finish(IterReturn(r.w, o.it), id)

take(w, id) ==
    IF w.heap[id].st = "suspendedStart"
    THEN takeLoop(ForOfEnter(w, id), id)
    ELSE takeLoop([w EXCEPT !.heap[id].index = @ + 1], id)

\* A skip that would drop one element more: where C5 looks.
skipLoopOneMore(w, id) ==
    LET r == ForOfNext(w, id) IN
    IF r.done THEN Finish(r.w, id)
    ELSE LET o == r.w.heap[id] IN
         IF o.index > o.n
         THEN Yield(r.w, id, r.value)
         ELSE skipLoop([r.w EXCEPT !.heap[id].index = @ + 1], id)

skipLoop(w, id) ==
    LET r == ForOfNext(w, id) IN
    IF r.done THEN Finish(r.w, id)
    ELSE LET o == r.w.heap[id] IN
         IF o.index >= o.n
         THEN Yield(r.w, id, r.value)
         ELSE skipLoop([r.w EXCEPT !.heap[id].index = @ + 1], id)

skip(w, id) ==
    IF w.heap[id].st = "suspendedStart"
    THEN skipLoop(ForOfEnter(w, id), id)
    ELSE skipLoop([w EXCEPT !.heap[id].index = @ + 1], id)

\* What a terminal operation returns: the world after it, the error it threw
\* ("" when it returned) and the value it returned.
\* An Outcome that would return its value whatever was thrown: where C22
\* looks.
OutcomeSwallowing(w, err, value) == [w |-> w, err |-> err, value |-> value]

\* What an operation gives its caller: a value, an error it threw itself, or
\* the exception that is unwinding (value is then what the unwound frames
\* were working on, which nobody receives).
Outcome(w, err, value) ==
    [w |-> w, err |-> IF w.thrown # "" THEN w.thrown ELSE err, value |-> value]

containsLoop(w, by, h, value, comparer) ==
    LET r == IterNext(w, by, h) IN
    IF r.done THEN Outcome(r.w, "", FALSE)
    ELSE LET w1 == LogCall(r.w, by, comparer, r.value, value) IN
         IF ApplyComparer(comparer, r.value, value)
         THEN Outcome(IterReturn(w1, r.h), "", TRUE)
         ELSE containsLoop(w1, by, r.h, value, comparer)

\* contains(source, value, comparer), source an object of the heap.
contains(w, by, source, value, comparer) ==
    containsLoop(w, by, GetIterator(w, source), value, comparer)

\* contains(source, value, comparer), source an array local to the caller.
containsItems(w, by, items, value, comparer) ==
    IF items = <<>> THEN Outcome(w, "", FALSE)
    ELSE LET w1 == LogCall(w, by, comparer, Head(items), value) IN
         IF ApplyComparer(comparer, Head(items), value)
         THEN Outcome(w1, "", TRUE)
         ELSE containsItems(w1, by, Tail(items), value, comparer)

\* type HashSet<T> = { [key: number]: T }: hashSet[key] and hashSet[key] = item.
HashGet(hs, k) ==
    IF \E p \in hs : p.k = k THEN (CHOOSE p \in hs : p.k = k).v ELSE Undefined

HashPut(hs, k, v) == {p \in hs : p.k # k} \cup {[k |-> k, v |-> v]}

makeHashSetLoop(w, by, h, hash, hs) ==
    LET r == IterNext(w, by, h) IN
    IF r.done THEN Outcome(r.w, "", hs)
    ELSE makeHashSetLoop(LogCall(r.w, by, hash, r.value, Undefined), by, r.h, hash,
                         HashPut(hs, ApplyHash(hash, r.value), r.value))

makeHashSet(w, by, source, hash) ==
    makeHashSetLoop(w, by, GetIterator(w, source), hash, {})

toArrayLoop(w, by, h, array) ==
    LET r == IterNext(w, by, h) IN
    IF r.done THEN Outcome(r.w, "", array)
    ELSE toArrayLoop(r.w, by, r.h, Append(array, r.value))

toArray(w, by, source) == toArrayLoop(w, by, GetIterator(w, source), <<>>)

\* selectMany: `seen` and `index` are the inner loop's iterable and position,
\* `flag` says the inner loop is running.
selectManyLoop(w, id) ==
    LET o == w.heap[id] IN
    IF o.flag /\ o.index < Len(o.seen)
    THEN Yield([w EXCEPT !.heap[id].index = @ + 1], id, o.seen[o.index + 1])
    ELSE LET r == ForOfNext(w, id) IN
         IF r.done THEN Finish(r.w, id)
         ELSE selectManyLoop(
                [LogCall(r.w, id, o.fn, r.value, Undefined)
                   EXCEPT !.heap[id].flag = TRUE,
                          !.heap[id].index = 0,
                          !.heap[id].seen = ApplyManySelector(o.fn, r.value, Undefined)],
                id)

selectMany(w, id) ==
    IF w.heap[id].st = "suspendedStart"
    THEN selectManyLoop(ForOfEnter(w, id), id)
    ELSE selectManyLoop(w, id)

\* A skipWhile that would test every element: where C23 looks.
skipWhileLoopRechecking(w, id) ==
    LET r == ForOfNext(w, id) IN
    IF r.done THEN Finish(r.w, id)
    ELSE LET o == r.w.heap[id]
             w1 == LogCall(r.w, id, o.fn, r.value, Num(o.index))
         IN IF ApplyPredicate(o.fn, r.value, Num(o.index))
            THEN skipWhileLoop([w1 EXCEPT !.heap[id].index = @ + 1], id)
            ELSE Yield([w1 EXCEPT !.heap[id].flag = TRUE], id, r.value)

\* skipWhile: `flag` is the negation of the local `skip`.
skipWhileLoop(w, id) ==
    LET r == ForOfNext(w, id) IN
    IF r.done THEN Finish(r.w, id)
    ELSE LET o == r.w.heap[id] IN
         IF ~o.flag
         THEN LET w1 == LogCall(r.w, id, o.fn, r.value, Num(o.index)) IN
              IF ApplyPredicate(o.fn, r.value, Num(o.index))
              THEN skipWhileLoop([w1 EXCEPT !.heap[id].index = @ + 1], id)
              ELSE Yield([w1 EXCEPT !.heap[id].flag = TRUE], id, r.value)
         ELSE Yield(r.w, id, r.value)

skipWhile(w, id) ==
    IF w.heap[id].st = "suspendedStart"
    THEN skipWhileLoop(ForOfEnter(w, id), id)
    ELSE skipWhileLoop(w, id)

\* A takeWhile that would go on after an element that fails: where C24 looks.
takeWhileLoopGoingOn(w, id) ==
    LET r == ForOfNext(w, id) IN
    IF r.done THEN Finish(r.w, id)
    ELSE LET o == r.w.heap[id]
             w1 == LogCall(r.w, id, o.fn, r.value, Num(o.index))
         IN IF ApplyPredicate(o.fn, r.value, Num(o.index))
            THEN Yield(w1, id, r.value)
            ELSE takeWhileLoop(w1, id)

takeWhileLoop(w, id) ==
    LET r == ForOfNext(w, id) IN
    IF r.done THEN Finish(r.w, id)
    ELSE LET o == r.w.heap[id]
             w1 == LogCall(r.w, id, o.fn, r.value, Num(o.index))
         IN IF ApplyPredicate(o.fn, r.value, Num(o.index))
            THEN Yield(w1, id, r.value)
            ELSE Finish(IterReturn(w1, o.it), id)

takeWhile(w, id) ==
    IF w.heap[id].st = "suspendedStart"
    THEN takeWhileLoop(ForOfEnter(w, id), id)
    ELSE takeWhileLoop([w EXCEPT !.heap[id].index = @ + 1], id)

assertTypeLoop(w, id) ==
    LET r == ForOfNext(w, id) IN
    IF r.done THEN Finish(r.w, id) ELSE Yield(r.w, id, r.value)

assertType(w, id) ==
    IF w.heap[id].st = "suspendedStart"
    THEN assertTypeLoop(ForOfEnter(w, id), id)
    ELSE assertTypeLoop(w, id)

\* Entering the second loop of concat, union and unionHash.
ForOfEnterSecond(w, id) ==
    [w EXCEPT !.heap[id].it = GetIterator(w, w.heap[id].src2), !.heap[id].phase = 2]

\* concat: `phase` is the loop that is running.
concatLoop(w, id) ==
    LET r == ForOfNext(w, id) IN
    IF ~r.done THEN Yield(r.w, id, r.value)
    ELSE IF r.w.heap[id].phase = 1
         THEN concatLoop(ForOfEnterSecond(r.w, id), id)
         ELSE Finish(r.w, id)

concat(w, id) ==
    IF w.heap[id].st = "suspendedStart"
    THEN concatLoop([ForOfEnter(w, id) EXCEPT !.heap[id].phase = 1], id)
    ELSE concatLoop(w, id)

\* distinct: `seen` is iteratedElements.
distinctLoop(w, id) ==
    LET r == ForOfNext(w, id) IN
    IF r.done THEN Finish(r.w, id)
    ELSE LET o == r.w.heap[id]
             c == containsItems(r.w, id, o.seen, r.value, o.fn)
         IN IF c.value
            THEN distinctLoop(c.w, id)
            ELSE Yield([c.w EXCEPT !.heap[id].seen = Append(@, r.value)], id, r.value)

distinct(w, id) ==
    IF w.heap[id].st = "suspendedStart"
    THEN distinctLoop(ForOfEnter(w, id), id)
    ELSE distinctLoop(w, id)

\* A distinctHash that would not record what it yields: where C16 looks.
distinctHashLoopForgetful(w, id) ==
    LET r == ForOfNext(w, id) IN
    IF r.done THEN Finish(r.w, id)
    ELSE LET o == r.w.heap[id]
             w1 == LogCall(r.w, id, o.fn, r.value, Undefined)
             hashValue == ApplyHash(o.fn, r.value)
         IN IF HashGet(o.hset, hashValue) # Undefined
            THEN distinctHashLoop(w1, id)
            ELSE Yield(w1, id, r.value)

\* distinctHash: `hset` is iteratedElements.
distinctHashLoop(w, id) ==
    LET r == ForOfNext(w, id) IN
    IF r.done THEN Finish(r.w, id)
    ELSE LET o == r.w.heap[id]
             w1 == LogCall(r.w, id, o.fn, r.value, Undefined)
             hashValue == ApplyHash(o.fn, r.value)
         IN IF HashGet(o.hset, hashValue) # Undefined
            THEN distinctHashLoop(w1, id)
            ELSE Yield([w1 EXCEPT !.heap[id].hset = HashPut(@, hashValue, r.value)],
                       id, r.value)

distinctHash(w, id) ==
    IF w.heap[id].st = "suspendedStart"
    THEN distinctHashLoop(ForOfEnter(w, id), id)
    ELSE distinctHashLoop(w, id)

exceptLoop(w, id) ==
    LET r == ForOfNext(w, id) IN
    IF r.done THEN Finish(r.w, id)
    ELSE LET o == r.w.heap[id]
             c == contains(r.w, id, o.src2, r.value, o.fn)
         IN IF ~c.value THEN Yield(c.w, id, r.value) ELSE exceptLoop(c.w, id)

except(w, id) ==
    IF w.heap[id].st = "suspendedStart"
    THEN exceptLoop(ForOfEnter(w, id), id)
    ELSE exceptLoop(w, id)

\* exceptHash: `hset` is hashedSecond.
exceptHashLoop(w, id) ==
    LET r == ForOfNext(w, id) IN
    IF r.done THEN Finish(r.w, id)
    ELSE LET o == r.w.heap[id]
             w1 == LogCall(r.w, id, o.fn, r.value, Undefined)
         IN IF HashGet(o.hset, ApplyHash(o.fn, r.value)) = Undefined
            THEN Yield(w1, id, r.value)
            ELSE exceptHashLoop(w1, id)

exceptHash(w, id) ==
    IF w.heap[id].st = "suspendedStart"
    THEN LET m == makeHashSet(w, id, w.heap[id].src2, w.heap[id].fn) IN
         exceptHashLoop(ForOfEnter([m.w EXCEPT !.heap[id].hset = m.value], id), id)
    ELSE exceptHashLoop(w, id)

\* An intersect that would yield every element of first: where C30 looks.
intersectLoopAll(w, id) ==
    LET r == ForOfNext(w, id) IN
    IF r.done THEN Finish(r.w, id)
    ELSE LET o == r.w.heap[id]
             c == contains(r.w, id, o.src2, r.value, o.fn)
         IN Yield(c.w, id, r.value)

intersectLoop(w, id) ==
    LET r == ForOfNext(w, id) IN
    IF r.done THEN Finish(r.w, id)
    ELSE LET o == r.w.heap[id]
             c == contains(r.w, id, o.src2, r.value, o.fn)
         IN IF c.value THEN Yield(c.w, id, r.value) ELSE intersectLoop(c.w, id)

intersect(w, id) ==
    IF w.heap[id].st = "suspendedStart"
    THEN intersectLoop(ForOfEnter(w, id), id)
    ELSE intersectLoop(w, id)

intersectHashLoop(w, id) ==
    LET r == ForOfNext(w, id) IN
    IF r.done THEN Finish(r.w, id)
    ELSE LET o == r.w.heap[id]
             w1 == LogCall(r.w, id, o.fn, r.value, Undefined)
         IN IF HashGet(o.hset, ApplyHash(o.fn, r.value)) # Undefined
            THEN Yield(w1, id, r.value)
            ELSE intersectHashLoop(w1, id)

intersectHash(w, id) ==
    IF w.heap[id].st = "suspendedStart"
    THEN LET m == makeHashSet(w, id, w.heap[id].src2, w.heap[id].fn) IN
         intersectHashLoop(ForOfEnter([m.w EXCEPT !.heap[id].hset = m.value], id), id)
    ELSE intersectHashLoop(w, id)

\* A union that would not push what it yields into items: where C21 looks.
unionLoopForgetful(w, id) ==
    LET r == ForOfNext(w, id) IN
    IF r.done
    THEN IF r.w.heap[id].phase = 1
         THEN unionLoop(ForOfEnterSecond(r.w, id), id)
         ELSE Finish(r.w, id)
    ELSE LET o == r.w.heap[id]
             c == containsItems(r.w, id, o.seen, r.value, o.fn)
         IN IF ~c.value
            THEN Yield(c.w, id, r.value)
            ELSE unionLoop(c.w, id)

\* union: `seen` is items, `phase` the loop that is running.
unionLoop(w, id) ==
    LET r == ForOfNext(w, id) IN
    IF r.done
    THEN IF r.w.heap[id].phase = 1
         THEN unionLoop(ForOfEnterSecond(r.w, id), id)
         ELSE Finish(r.w, id)
    ELSE LET o == r.w.heap[id]
             c == containsItems(r.w, id, o.seen, r.value, o.fn)
         IN IF ~c.value
            THEN Yield([c.w EXCEPT !.heap[id].seen = Append(@, r.value)], id, r.value)
            ELSE unionLoop(c.w, id)

union(w, id) ==
    IF w.heap[id].st = "suspendedStart"
    THEN unionLoop([ForOfEnter(w, id) EXCEPT !.heap[id].phase = 1], id)
    ELSE unionLoop(w, id)

\* unionHash: `hset` is items.
unionHashLoop(w, id) ==
    LET r == ForOfNext(w, id) IN
    IF r.done
    THEN IF r.w.heap[id].phase = 1
         THEN unionHashLoop(ForOfEnterSecond(r.w, id), id)
         ELSE Finish(r.w, id)
    ELSE LET o == r.w.heap[id]
             w1 == LogCall(r.w, id, o.fn, r.value, Undefined)
             hashValue == ApplyHash(o.fn, r.value)
         IN IF HashGet(o.hset, hashValue) = Undefined
            THEN Yield([w1 EXCEPT !.heap[id].hset = HashPut(@, hashValue, r.value)],
                       id, r.value)
            ELSE unionHashLoop(w1, id)

unionHash(w, id) ==
    IF w.heap[id].st = "suspendedStart"
    THEN unionHashLoop([ForOfEnter(w, id) EXCEPT !.heap[id].phase = 1], id)
    ELSE unionHashLoop(w, id)

\* zip: `it` and `it2` are firstIterator and secondIterator.
\* A zip that would stop only when both sources are exhausted: where C17 looks.
zipLoopToTheLonger(w, id) ==
    LET r1 == IterNext(w, id, w.heap[id].it)
        r2 == IterNext(r1.w, id, r1.w.heap[id].it2)
        w2 == [r2.w EXCEPT !.heap[id].it = r1.h, !.heap[id].it2 = r2.h]
    IN IF r1.done /\ r2.done THEN Finish(w2, id)
       ELSE Yield(LogCall(w2, id, w2.heap[id].fn, r1.value, r2.value), id,
                  ApplyResultSelector(w2.heap[id].fn, r1.value, r2.value))

zipLoop(w, id) ==
    LET r1 == IterNext(w, id, w.heap[id].it)
        r2 == IterNext(r1.w, id, r1.w.heap[id].it2)
        w2 == [r2.w EXCEPT !.heap[id].it = r1.h, !.heap[id].it2 = r2.h]
    IN IF r1.done \/ r2.done THEN Finish(w2, id)
       ELSE Yield(LogCall(w2, id, w2.heap[id].fn, r1.value, r2.value), id,
                  ApplyResultSelector(w2.heap[id].fn, r1.value, r2.value))

zip(w, id) ==
    IF w.heap[id].st = "suspendedStart"
    THEN zipLoop([w EXCEPT !.heap[id].it = GetIterator(w, w.heap[id].src),
                           !.heap[id].it2 = GetIterator(w, w.heap[id].src2)], id)
    ELSE zipLoop(w, id)

\* The while (true) loop that ends defaultIfEmpty and undefinedIfEmpty.
ifEmptyLoop(w, id) ==
    LET r == IterNext(w, id, w.heap[id].it)
        w1 == [r.w EXCEPT !.heap[id].it = r.h]
    IN IF r.done THEN Finish(w1, id) ELSE Yield(w1, id, r.value)

\* A defaultIfEmpty that would yield the default first in any case: where
\* C26 looks.
defaultIfEmptyAlways(w, id) ==
    IF w.heap[id].st = "suspendedStart"
    THEN Yield([w EXCEPT !.heap[id].it = GetIterator(w, w.heap[id].src)], id,
               w.heap[id].dflt)
    ELSE ifEmptyLoop(w, id)

\* defaultIfEmpty(source, defaultValue), the default kept in `dflt`;
\* undefinedIfEmpty(source) is the same body with undefined for the default.
defaultIfEmpty(w, id) ==
    IF w.heap[id].st = "suspendedStart"
    THEN LET r == IterNext(w, id, GetIterator(w, w.heap[id].src))
             w1 == [r.w EXCEPT !.heap[id].it = r.h]
         IN IF r.done THEN Yield(w1, id, w1.heap[id].dflt) ELSE Yield(w1, id, r.value)
    ELSE ifEmptyLoop(w, id)

undefinedIfEmpty(w, id) ==
    IF w.heap[id].st = "suspendedStart"
    THEN LET r == IterNext(w, id, GetIterator(w, w.heap[id].src))
             w1 == [r.w EXCEPT !.heap[id].it = r.h]
         IN IF r.done THEN Yield(w1, id, Undefined) ELSE Yield(w1, id, r.value)
    ELSE ifEmptyLoop(w, id)

\* A reverseArray that would yield from the front: where C25 looks.
reverseArrayForward(w, id) ==
    LET o == w.heap[id] IN
    IF o.index >= 1
    THEN Yield([w EXCEPT !.heap[id].index = @ - 1], id,
               o.seen[Len(o.seen) - o.index + 1])
    ELSE Finish(w, id)

\* reverseArray(source): `seen` is the array, `index` the loop's i + 1.
reverseArray(w, id) ==
    LET o == w.heap[id] IN
    IF o.index >= 1
    THEN Yield([w EXCEPT !.heap[id].index = @ - 1], id, o.seen[o.index])
    ELSE Finish(w, id)

\* reverse(source): source instanceof Array, or toArray(source).
reverse(w, id) ==
    IF w.heap[id].st = "suspendedStart"
    THEN LET s == w.heap[w.heap[id].src] IN
         IF s.type = "array"
         THEN reverseArray([w EXCEPT !.heap[id].seen = s.items,
                                     !.heap[id].index = Len(s.items)], id)
         ELSE LET a == toArray(w, id, w.heap[id].src) IN
              reverseArray([a.w EXCEPT !.heap[id].seen = a.value,
                                       !.heap[id].index = Len(a.value)], id)
    ELSE reverseArray(w, id)

\* generator.next(): runs the generator's body to its next yield or its end.
\* A caller's infinite source, function* () { let i = n; while (true) yield i++; }:
\* `index` counts what it has yielded.
naturals(w, id) ==
    Yield([w EXCEPT !.heap[id].index = @ + 1], id, Num(w.heap[id].n + w.heap[id].index))

Resume(w, id) ==
    LET o == w.heap[id] IN
    IF o.st = "completed" THEN IterResult(w, NoIter, TRUE, Undefined)
    ELSE CASE o.kind = "where" -> where(w, id)
           [] o.kind = "select" -> select(w, id)
           [] o.kind = "take" -> take(w, id)
           [] o.kind = "skip" -> skip(w, id)
           [] o.kind = "selectMany" -> selectMany(w, id)
           [] o.kind = "skipWhile" -> skipWhile(w, id)
           [] o.kind = "takeWhile" -> takeWhile(w, id)
           [] o.kind = "assertType" -> assertType(w, id)
           [] o.kind = "concat" -> concat(w, id)
           [] o.kind = "distinct" -> distinct(w, id)
           [] o.kind = "distinctHash" -> distinctHash(w, id)
           [] o.kind = "except" -> except(w, id)
           [] o.kind = "exceptHash" -> exceptHash(w, id)
           [] o.kind = "intersect" -> intersect(w, id)
           [] o.kind = "intersectHash" -> intersectHash(w, id)
           [] o.kind = "union" -> union(w, id)
           [] o.kind = "unionHash" -> unionHash(w, id)
           [] o.kind = "zip" -> zip(w, id)
           [] o.kind = "defaultIfEmpty" -> defaultIfEmpty(w, id)
           [] o.kind = "undefinedIfEmpty" -> undefinedIfEmpty(w, id)
           [] o.kind = "reverse" -> reverse(w, id)
           [] o.kind = "naturals" -> naturals(w, id)

(***************************************************************************)
(* Terminal operations.  `by` is the object on whose behalf the operation  *)
(* pulls (0 is the library's caller).                                      *)
(***************************************************************************)
firstOrUndefinedLoop(w, by, h, predicate) ==
    LET r == IterNext(w, by, h) IN
    IF r.done THEN Outcome(r.w, "", Undefined)
    ELSE LET w1 == LogCall(r.w, by, predicate, r.value, Undefined) IN
         IF ApplyPredicate(predicate, r.value, Undefined)
         THEN Outcome(IterReturn(w1, r.h), "", r.value)
         ELSE firstOrUndefinedLoop(w1, by, r.h, predicate)

firstOrUndefined(w, by, target, predicate) ==
    firstOrUndefinedLoop(w, by, GetIterator(w, target), predicate)

\* if (result === undefined) throw new Error("empty sequence"); return result;
throwIfUndefined(result) ==
    IF result.value = Undefined
    THEN Outcome(result.w, "empty sequence", Undefined)
    ELSE result

first(w, by, target, predicate) ==
    throwIfUndefined(firstOrUndefined(w, by, target, predicate))

\* The backward loop of lastOrUndefinedForArray, i the position to look at.
lastOrUndefinedForArray(w, by, target, predicate) ==
    LET o == w.heap[target.obj]
        i == target.pos
    IN IF i < 1 THEN Outcome(w, "", Undefined)
       ELSE LET w1 == LogCall(w, by, predicate, o.items[i], Undefined) IN
            IF ApplyPredicate(predicate, o.items[i], Undefined)
            THEN Outcome(w1, "", o.items[i])
            ELSE lastOrUndefinedForArray(w1, by, [target EXCEPT !.pos = i - 1], predicate)

\* A forward scan that would keep the first match: where C29 looks.
lastOrUndefinedLoopKeepingFirst(w, by, h, predicate, last) ==
    LET r == IterNext(w, by, h) IN
    IF r.done THEN Outcome(r.w, "", last)
    ELSE lastOrUndefinedLoop(LogCall(r.w, by, predicate, r.value, Undefined), by, r.h,
                             predicate,
                             IF ApplyPredicate(predicate, r.value, Undefined)
                                /\ last = Undefined
                             THEN r.value ELSE last)

lastOrUndefinedLoop(w, by, h, predicate, last) ==
    LET r == IterNext(w, by, h) IN
    IF r.done THEN Outcome(r.w, "", last)
    ELSE lastOrUndefinedLoop(LogCall(r.w, by, predicate, r.value, Undefined), by, r.h,
                             predicate,
                             IF ApplyPredicate(predicate, r.value, Undefined)
                             THEN r.value ELSE last)

lastOrUndefined(w, by, target, predicate) ==
    IF w.heap[target].type = "array"
    THEN lastOrUndefinedForArray(w, by,
                                 [obj |-> target, pos |-> Len(w.heap[target].items)],
                                 predicate)
    ELSE lastOrUndefinedLoop(w, by, GetIterator(w, target), predicate, Undefined)

last(w, by, target, predicate) ==
    throwIfUndefined(lastOrUndefined(w, by, target, predicate))

singleOrUndefinedLoop(w, by, h, predicate, result) ==
    LET r == IterNext(w, by, h) IN
    IF r.done THEN Outcome(r.w, "", result)
    ELSE LET w1 == LogCall(r.w, by, predicate, r.value, Undefined) IN
         IF ApplyPredicate(predicate, r.value, Undefined)
         THEN IF result # Undefined
              THEN Outcome(IterReturn(w1, r.h),
                           "sequence contains more than one element that satisfies specified predicate",
                           Undefined)
              ELSE singleOrUndefinedLoop(w1, by, r.h, predicate, r.value)
         ELSE singleOrUndefinedLoop(w1, by, r.h, predicate, result)

singleOrUndefined(w, by, source, predicate) ==
    singleOrUndefinedLoop(w, by, GetIterator(w, source), predicate, Undefined)

\* if (result === undefined) throw new Error("sequence contains no element ...").
throwIfNoElement(result) ==
    IF result.err = "" /\ result.value = Undefined
    THEN Outcome(result.w,
                 "sequence contains no element that satisfies specified predicate",
                 Undefined)
    ELSE result

single(w, by, source, predicate) ==
    throwIfNoElement(singleOrUndefined(w, by, source, predicate))

elementAtOrUndefinedLoop(w, by, h, index, currentIndex) ==
    LET r == IterNext(w, by, h) IN
    IF r.done THEN Outcome(r.w, "", Undefined)
    ELSE IF currentIndex = index
         THEN Outcome(IterReturn(r.w, r.h), "", r.value)
         ELSE elementAtOrUndefinedLoop(r.w, by, r.h, index, currentIndex + 1)

elementAtOrUndefined(w, by, source, index) ==
    elementAtOrUndefinedLoop(w, by, GetIterator(w, source), index, 0)

\* if (!element) throw new Error("element not existed"); return element;
throwIfNotElement(element) ==
    IF ~Truthy(element.value)
    THEN Outcome(element.w, "element not existed", Undefined)
    ELSE element

elementAt(w, by, source, index) ==
    throwIfNotElement(elementAtOrUndefined(w, by, source, index))

\* Number.MIN_VALUE is the smallest positive double and Number.MAX_VALUE the
\* largest finite one: 0 < MIN_VALUE < 1 and every number of the model is
\* below MAX_VALUE.
NumberMinValue == [t |-> "Number.MIN_VALUE", n |-> 0]

NumberMaxValue == [t |-> "Number.MAX_VALUE", n |-> 0]

\* a < b on numbers.
NumberLess(a, b) ==
    CASE a.t = "Number.MAX_VALUE" -> FALSE
      [] b.t = "Number.MAX_VALUE" -> TRUE
      [] a.t = "Number.MIN_VALUE" -> b.t = "number" /\ b.n >= 1
      [] b.t = "Number.MIN_VALUE" -> a.n <= 0
      [] OTHER -> a.n < b.n

MathMin(a, b) == IF NumberLess(b, a) THEN b ELSE a

MathMax(a, b) == IF NumberLess(a, b) THEN b ELSE a

minLoop(w, by, h, selector, m) ==
    LET r == IterNext(w, by, h) IN
    IF r.done THEN Outcome(r.w, "", m)
    ELSE minLoop(LogCall(r.w, by, selector, r.value, Undefined), by, r.h, selector,
                 MathMin(m, ApplySelector(selector, r.value, Undefined)))

min(w, by, target, selector) ==
    minLoop(w, by, GetIterator(w, target), selector, NumberMaxValue)

maxLoop(w, by, h, selector, m) ==
    LET r == IterNext(w, by, h) IN
    IF r.done THEN Outcome(r.w, "", m)
    ELSE maxLoop(LogCall(r.w, by, selector, r.value, Undefined), by, r.h, selector,
                 MathMax(m, ApplySelector(selector, r.value, Undefined)))

max(w, by, target, selector) ==
    maxLoop(w, by, GetIterator(w, target), selector, NumberMinValue)

\* Accumulator functions of aggregate and aggregateWithSeed.
Accumulators == {"subtract", "second"}

ApplyAccumulator(f, accumulate, current) ==
    CASE f = "subtract" -> Num(accumulate.n - current.n)
      [] f = "second" -> current

\* The while (true) loop of aggregate.
RECURSIVE aggregateLoop(_, _, _, _, _)
\* A fold that would give func its arguments swapped: where C20 looks.
aggregateLoopSwapped(w, by, h, func, seed) ==
    LET iterateResult == IterNext(w, by, h) IN
    IF iterateResult.done THEN Outcome(iterateResult.w, "", seed)
    ELSE aggregateLoop(LogCall(iterateResult.w, by, func, seed, iterateResult.value),
                       by, iterateResult.h, func,
                       ApplyAccumulator(func, iterateResult.value, seed))

aggregateLoop(w, by, h, func, seed) ==
    LET iterateResult == IterNext(w, by, h) IN
    IF iterateResult.done THEN Outcome(iterateResult.w, "", seed)
    ELSE aggregateLoop(LogCall(iterateResult.w, by, func, seed, iterateResult.value),
                       by, iterateResult.h, func,
                       ApplyAccumulator(func, seed, iterateResult.value))

\* const { done, value } = iterator.next(); if (done) throwEmptySequence();
aggregateFirst(r, by, func) ==
    IF r.done THEN Outcome(r.w, "empty sequence", Undefined)
    ELSE aggregateLoop(r.w, by, r.h, func, r.value)

aggregate(w, by, source, func) ==
    aggregateFirst(IterNext(w, by, GetIterator(w, source)), by, func)

\* aggregateWithSeed: the for-of loop is the loop of aggregate from seed.
aggregateWithSeed(w, by, source, seed, func) ==
    aggregateLoop(w, by, GetIterator(w, source), func, seed)

RECURSIVE anyLoop(_, _, _, _)
\* An any that would read the source to its end: where C19 looks.
anyLoopToTheEnd(w, by, h, predicate) ==
    LET r == IterNext(w, by, h) IN
    IF r.done THEN Outcome(r.w, "", Bool(FALSE))
    ELSE IF ApplyPredicate(predicate, r.value, Undefined)
         THEN Outcome(toArrayLoop(LogCall(r.w, by, predicate, r.value, Undefined),
                                  by, r.h, <<>>).w, "", Bool(TRUE))
         ELSE anyLoop(LogCall(r.w, by, predicate, r.value, Undefined), by, r.h, predicate)

anyLoop(w, by, h, predicate) ==
    LET r == IterNext(w, by, h) IN
    IF r.done THEN Outcome(r.w, "", Bool(FALSE))
    ELSE IF ApplyPredicate(predicate, r.value, Undefined)
         THEN Outcome(IterReturn(LogCall(r.w, by, predicate, r.value, Undefined), r.h),
                      "", Bool(TRUE))
         ELSE anyLoop(LogCall(r.w, by, predicate, r.value, Undefined), by, r.h, predicate)

any(w, by, source, predicate) == anyLoop(w, by, GetIterator(w, source), predicate)

RECURSIVE countLoop(_, _, _, _, _)
countLoop(w, by, h, predicate, count) ==
    LET r == IterNext(w, by, h) IN
    IF r.done THEN Outcome(r.w, "", Num(count))
    ELSE countLoop(LogCall(r.w, by, predicate, r.value, Undefined), by, r.h, predicate,
                   IF ApplyPredicate(predicate, r.value, Undefined)
                   THEN count + 1 ELSE count)

count(w, by, source, predicate) ==
    countLoop(w, by, GetIterator(w, source), predicate, 0)

\* The while (true) loop of sequenceEqual.
RECURSIVE sequenceEqualLoop(_, _, _, _, _)
\* A sequenceEqual that would accept a first sequence that is a prefix of the
\* second: where C18 looks.
sequenceEqualStepPrefix(firstResult, secondResult, by, comparer) ==
    IF firstResult.done THEN Outcome(secondResult.w, "", Bool(TRUE))
    ELSE IF secondResult.done THEN Outcome(secondResult.w, "", Bool(FALSE))
    ELSE IF ~ApplyComparer(comparer, firstResult.value, secondResult.value)
         THEN Outcome(LogCall(secondResult.w, by, comparer,
                              firstResult.value, secondResult.value), "", Bool(FALSE))
         ELSE sequenceEqualLoop(LogCall(secondResult.w, by, comparer,
                                        firstResult.value, secondResult.value),
                                by, firstResult.h, secondResult.h, comparer)

sequenceEqualStep(firstResult, secondResult, by, comparer) ==
    IF firstResult.done THEN Outcome(secondResult.w, "", Bool(secondResult.done))
    ELSE IF secondResult.done THEN Outcome(secondResult.w, "", Bool(FALSE))
    ELSE IF ~ApplyComparer(comparer, firstResult.value, secondResult.value)
         THEN Outcome(LogCall(secondResult.w, by, comparer,
                              firstResult.value, secondResult.value), "", Bool(FALSE))
         ELSE sequenceEqualLoop(LogCall(secondResult.w, by, comparer,
                                        firstResult.value, secondResult.value),
                                by, firstResult.h, secondResult.h, comparer)

\* secondIterator.next() is called in the world firstIterator.next() left.
sequenceEqualSecond(firstResult, by, secondIterator, comparer) ==
    sequenceEqualStep(firstResult, IterNext(firstResult.w, by, secondIterator),
                      by, comparer)

sequenceEqualLoop(w, by, firstIterator, secondIterator, comparer) ==
    sequenceEqualSecond(IterNext(w, by, firstIterator), by, secondIterator, comparer)

sequenceEqual(w, by, first_, second, comparer) ==
    sequenceEqualLoop(w, by, GetIterator(w, first_), GetIterator(w, second), comparer)

(***************************************************************************)
(* The library's caller.                                                   *)
(***************************************************************************)
Elems == {Num(1), Num(2)}

Arrays == UNION {[1..k -> Elems] : k \in 0..MaxLen}

Counts == 0..MaxLen

\* The stages the caller may build over the objects of the heap.
Stages(ids) ==
    {MkGen("where", s, 0, p, 0, Undefined) : s \in ids, p \in Predicates}
    \cup {MkGen("select", s, 0, f, 0, Undefined) : s \in ids, f \in Selectors}
    \cup {MkGen("take", s, 0, "", n, Undefined) : s \in ids, n \in Counts}
    \cup {MkGen("skip", s, 0, "", n, Undefined) : s \in ids, n \in Counts}
    \cup {MkGen("selectMany", s, 0, f, 0, Undefined) : s \in ids, f \in ManySelectors}
    \cup {MkGen("skipWhile", s, 0, p, 0, Undefined) : s \in ids, p \in Predicates}
    \cup {MkGen("takeWhile", s, 0, p, 0, Undefined) : s \in ids, p \in Predicates}
    \cup {MkGen("distinct", s, 0, c, 0, Undefined) : s \in ids, c \in Comparers}
    \cup {MkGen("distinctHash", s, 0, h, 0, Undefined) : s \in ids, h \in Hashes}
    \cup {MkGen(k, s, 0, "", 0, Undefined) :
             s \in ids, k \in {"assertType", "undefinedIfEmpty", "reverse"}}
    \cup {MkGen("defaultIfEmpty", s, 0, "", 0, Num(0)) : s \in ids}
    \cup {MkGen("concat", s, s2, "", 0, Undefined) : s \in ids, s2 \in ids}
    \cup {MkGen(k, s, s2, c, 0, Undefined) :
             s \in ids, s2 \in ids, c \in Comparers, k \in {"except", "intersect", "union"}}
    \cup {MkGen(k, s, s2, h, 0, Undefined) :
             s \in ids, s2 \in ids, h \in Hashes,
             k \in {"exceptHash", "intersectHash", "unionHash"}}
    \cup {MkGen("zip", s, s2, f, 0, Undefined) : s \in ids, s2 \in ids, f \in ResultSelectors}

Init ==
    /\ \E A \in Arrays, B \in Arrays : heap = <<MkArray(A), MkArray(B)>>
    /\ calls = <<>>
    /\ pulls = <<>>
    /\ travs = <<>>
    /\ results = <<>>

\* A construction that would run the stage's body to its first yield: where
\* C3 looks.
ConstructEager(g) ==
    LET w == Resume([World EXCEPT !.heap = Append(heap, g)], Len(heap) + 1).w IN
    /\ heap' = w.heap
    /\ calls' = w.calls
    /\ pulls' = w.pulls
    /\ UNCHANGED <<travs, results>>

\* Calling a generator function: the generator object is made, its body not run.
Construct(g) ==
    /\ heap' = Append(heap, g)
    /\ UNCHANGED <<calls, pulls, travs, results>>

\* The caller starts a traversal: it = obj[Symbol.iterator]().
Iterate(id) ==
    /\ Len(travs) < MaxTravs
    /\ \A t \in 1..Len(travs) : travs[t].status # "open"
    /\ travs' = Append(travs, [obj |-> id, h |-> GetIterator(World, id),
                               out |-> <<>>, status |-> "open", err |-> ""])
    /\ UNCHANGED <<heap, calls, pulls, results>>

\* The caller's it.next().
Pull(t) ==
    /\ travs[t].status = "open"
    /\ LET r == IterNext(World, 0, travs[t].h) IN
       /\ heap' = r.w.heap
       /\ calls' = r.w.calls
       /\ pulls' = r.w.pulls
       /\ travs' = [travs EXCEPT ![t].h = r.h,
                                 ![t].out = IF r.done THEN @ ELSE Append(@, r.value),
                                 ![t].status = CASE r.w.thrown # "" -> "threw"
                                                 [] r.done -> "done"
                                                 [] OTHER -> @,
                                 ![t].err = r.w.thrown]
    /\ UNCHANGED results

\* The caller leaves its for-of loop early (break): the loop calls it.return().
Break(t) ==
    /\ travs[t].status = "open"
    /\ Len(travs[t].out) > 0
    /\ LET w == IterReturn(World, travs[t].h) IN
       /\ heap' = w.heap
       /\ calls' = w.calls
       /\ pulls' = w.pulls
    /\ travs' = [travs EXCEPT ![t].status = "broken"]
    /\ UNCHANGED results

\* The caller stops calling next() on an iterator it drove by hand.
Leave(t) ==
    /\ travs[t].status = "open"
    /\ travs' = [travs EXCEPT ![t].status = "left"]
    /\ UNCHANGED <<heap, calls, pulls, results>>

Next ==
    \/ Len(heap) = 2 /\ \E g \in Stages(1..2) : Construct(g)
    \/ \E id \in 3..Len(heap) : Iterate(id)
    \/ \E t \in 1..Len(travs) : Pull(t)
    \/ \E t \in 1..Len(travs) : Break(t)
    \/ \E t \in 1..Len(travs) : Leave(t)

Spec == Init /\ [][Next]_vars

(***************************************************************************)
(* The caller of the terminal operations.  A terminal operation is given   *)
(* an array or a stage nothing has traversed yet; what it returned or      *)
(* threw is appended to results.                                           *)
(***************************************************************************)
MaxResults == 1

TerminalElems == {Num(0 - 1), Num(0), Num(1), Num(2), Bool(FALSE), Str(0), Undefined}

TerminalArrays == UNION {[1..k -> TerminalElems] : k \in 0..MaxLen}

TerminalPredicates == {"always", "odd", "notNumber"}

NumberSelectors == {"valueOf", "negate"}

Indexes == (0 - 1)..MaxLen

Fresh(id) == heap[id].type = "array" \/ heap[id].st = "suspendedStart"

\* The elements a fresh object delivers when it is an array or a stage that
\* passes an array through.
RECURSIVE Input(_)
Input(id) ==
    IF heap[id].type = "array" THEN heap[id].items ELSE Input(heap[id].src)

\* The operation returned (or threw) o: a value, or for toArray an array.
Returns(op, id, fn, n, o) ==
    /\ heap' = o.w.heap
    /\ calls' = o.w.calls
    /\ pulls' = o.w.pulls
    /\ results' = Append(results, [op |-> op, src |-> id, fn |-> fn, n |-> n,
                                   err |-> o.err,
                                   value |-> IF op = "toArray" \/ o.err # ""
                                             THEN Undefined ELSE o.value,
                                   array |-> IF op = "toArray" /\ o.err = ""
                                             THEN o.value ELSE <<>>])
    /\ UNCHANGED travs

CanCall(id) == Len(results) < MaxResults /\ Fresh(id)

FirstOrUndefined(id, p) ==
    /\ CanCall(id)
    /\ Returns("firstOrUndefined", id, p, 0, firstOrUndefined(World, 0, id, p))

First(id, p) ==
    /\ CanCall(id)
    /\ Returns("first", id, p, 0, first(World, 0, id, p))

LastOrUndefined(id, p) ==
    /\ CanCall(id)
    /\ Returns("lastOrUndefined", id, p, 0, lastOrUndefined(World, 0, id, p))

Last(id, p) ==
    /\ CanCall(id)
    /\ Returns("last", id, p, 0, last(World, 0, id, p))

SingleOrUndefined(id, p) ==
    /\ CanCall(id)
    /\ Returns("singleOrUndefined", id, p, 0, singleOrUndefined(World, 0, id, p))

Single(id, p) ==
    /\ CanCall(id)
    /\ Returns("single", id, p, 0, single(World, 0, id, p))

ElementAtOrUndefined(id, index) ==
    /\ CanCall(id)
    /\ Returns("elementAtOrUndefined", id, "", index, elementAtOrUndefined(World, 0, id, index))

ElementAt(id, index) ==
    /\ CanCall(id)
    /\ Returns("elementAt", id, "", index, elementAt(World, 0, id, index))

\* min and max are given sequences of numbers.
Numeric(id) == \A i \in 1..Len(Input(id)) : Input(id)[i].t = "number"

Min(id, f) ==
    /\ CanCall(id)
    /\ Numeric(id)
    /\ Returns("min", id, f, 0, min(World, 0, id, f))

Max(id, f) ==
    /\ CanCall(id)
    /\ Numeric(id)
    /\ Returns("max", id, f, 0, max(World, 0, id, f))

AnyElement(id, p) ==
    /\ CanCall(id)
    /\ Returns("any", id, p, 0, any(World, 0, id, p))

Seeds == {Num(0), Num(3)}

Aggregate(id, f) ==
    /\ CanCall(id)
    /\ Numeric(id)
    /\ Returns("aggregate", id, f, 0, aggregate(World, 0, id, f))

AggregateWithSeed(id, seed, f) ==
    /\ CanCall(id)
    /\ Numeric(id)
    /\ Returns("aggregateWithSeed", id, f, seed.n,
               aggregateWithSeed(World, 0, id, seed, f))

InitTerminal ==
    /\ \E A \in TerminalArrays : heap = <<MkArray(A)>>
    /\ calls = <<>>
    /\ pulls = <<>>
    /\ travs = <<>>
    /\ results = <<>>

NextTerminal ==
    \/ Len(heap) = 1 /\ Construct(MkGen("assertType", 1, 0, "", 0, Undefined))
    \/ \E id \in 1..Len(heap), p \in TerminalPredicates : FirstOrUndefined(id, p)
    \/ \E id \in 1..Len(heap), p \in TerminalPredicates : First(id, p)
    \/ \E id \in 1..Len(heap), p \in TerminalPredicates : LastOrUndefined(id, p)
    \/ \E id \in 1..Len(heap), p \in TerminalPredicates : Last(id, p)
    \/ \E id \in 1..Len(heap), p \in TerminalPredicates : SingleOrUndefined(id, p)
    \/ \E id \in 1..Len(heap), p \in TerminalPredicates : Single(id, p)
    \/ \E id \in 1..Len(heap), i \in Indexes : ElementAtOrUndefined(id, i)
    \/ \E id \in 1..Len(heap), i \in Indexes : ElementAt(id, i)
    \/ \E id \in 1..Len(heap), f \in NumberSelectors : Min(id, f)
    \/ \E id \in 1..Len(heap), f \in NumberSelectors : Max(id, f)
    \/ \E id \in 1..Len(heap), p \in TerminalPredicates : AnyElement(id, p)
    \/ \E id \in 1..Len(heap), f \in Accumulators : Aggregate(id, f)
    \/ \E id \in 1..Len(heap), seed \in Seeds, f \in Accumulators :
          AggregateWithSeed(id, seed, f)

SpecTerminal == InitTerminal /\ [][NextTerminal]_vars

(***************************************************************************)
(* The caller that composes stages: a first stage over A or B, a second    *)
(* stage over A and, for except, over B or the first stage; toArray        *)
(* materializes a stage nothing has traversed yet.                         *)
(***************************************************************************)
MaxToArrays == 2

ElementSelectors == {"valueOf", "negate"}

ElementPredicates == {"always", "odd", "isTwo"}

FirstStages ==
    {MkGen("take", 1, 0, "", n, Undefined) : n \in Counts}
    \cup {MkGen("distinct", 1, 0, "strictEquals", 0, Undefined)}
    \cup {MkGen("reverse", 1, 0, "", 0, Undefined)}
    \cup {MkGen("select", 2, 0, f, 0, Undefined) : f \in ElementSelectors}
    \cup {MkGen("where", 2, 0, p, 0, Undefined) : p \in ElementPredicates}

SecondStages ==
    {MkGen("skip", 1, 0, "", n, Undefined) : n \in Counts}
    \cup {MkGen("distinctHash", 1, 0, "valueOf", 0, Undefined)}
    \cup {MkGen("reverse", 3, 0, "", 0, Undefined)}
    \cup {MkGen("except", 1, s2, c, 0, Undefined) : s2 \in 2..3, c \in Comparers}

ToArray(id) ==
    /\ Len(results) < MaxToArrays
    /\ Fresh(id)
    /\ Returns("toArray", id, "", 0, toArray(World, 0, id))

NextCompose ==
    \/ Len(heap) = 2 /\ \E g \in FirstStages : Construct(g)
    \/ Len(heap) = 3 /\ \E g \in SecondStages : Construct(g)
    \/ \E id \in 3..Len(heap) : ToArray(id)

SpecCompose == Init /\ [][NextCompose]_vars

(***************************************************************************)
(* The caller of the LinqWrapper: L(A), the transformation methods select, *)
(* where and distinct, the terminal methods count and toArray, and beside  *)
(* them the free functions on A.                                           *)
(***************************************************************************)
MaxHeap == 6

\* const defaultPredicate = () => true;
defaultPredicate == "always"

\* const defaultEqualityComparer = (a, b) => a === b;
defaultEqualityComparer == "strictEquals"

IsWrapper(id) == heap[id].type = "wrapper"

\* L(iterable).
L(iterable) ==
    /\ Len(heap) = 1
    /\ heap' = Append(heap, MkWrapper(iterable, "L", 0, ""))
    /\ UNCHANGED <<calls, pulls, travs, results>>

\* A transformation method: new LinqWrapper(stage), stage the generator object
\* the free function returned.
WrapStage(this, stage, fn) ==
    /\ IsWrapper(this)
    /\ Len(heap) + 2 <= MaxHeap
    /\ heap' = heap \o <<stage, MkWrapper(Len(heap) + 1, stage.kind, this, fn)>>
    /\ UNCHANGED <<calls, pulls, travs, results>>

\* select(selector) { return new LinqWrapper(select(this.iterable, selector)); }
WrapperSelect(this, selector) ==
    WrapStage(this, MkGen("select", heap[this].src, 0, selector, 0, Undefined), selector)

\* where(predicate) { return new LinqWrapper(where(this.iterable, predicate)); }
WrapperWhere(this, predicate) ==
    WrapStage(this, MkGen("where", heap[this].src, 0, predicate, 0, Undefined), predicate)

\* distinct(comparer) { return new LinqWrapper(distinct(this.iterable)); }
WrapperDistinct(this, comparer) ==
    WrapStage(this, MkGen("distinct", heap[this].src, 0, defaultEqualityComparer,
                          0, Undefined), comparer)

\* count(predicate) { return count(this.iterable); }
WrapperCount(this, predicate) ==
    /\ IsWrapper(this)
    /\ Len(results) < MaxToArrays
    /\ Returns("L.count", this, predicate, 0,
               count(World, 0, heap[this].src, defaultPredicate))

\* toArray() { return toArray(this.iterable); }
WrapperToArray(this) ==
    /\ IsWrapper(this)
    /\ Len(results) < MaxToArrays
    /\ Returns("toArray", this, "", 0, toArray(World, 0, heap[this].src))

\* The free function count(source, predicate) on the array.
Count(id, predicate) ==
    /\ Len(results) < MaxToArrays
    /\ Returns("count", id, predicate, 0, count(World, 0, id, predicate))

WrapperSelectors == {"negate"}

WrapperPredicates == {"always", "odd"}

\* The stages the free functions select, where and distinct make over the array.
FreeStages ==
    {MkGen("select", 1, 0, f, 0, Undefined) : f \in WrapperSelectors}
    \cup {MkGen("where", 1, 0, p, 0, Undefined) : p \in WrapperPredicates}
    \cup {MkGen("distinct", 1, 0, c, 0, Undefined) : c \in Comparers}

\* Elements of which two are different and of the same parity.
WrapperElems == {Num(1), Num(2), Num(3)}

WrapperArrays == UNION {[1..k -> WrapperElems] : k \in 0..MaxLen}

InitWrapper ==
    /\ \E A \in WrapperArrays : heap = <<MkArray(A)>>
    /\ calls = <<>>
    /\ pulls = <<>>
    /\ travs = <<>>
    /\ results = <<>>

NextWrapper ==
    \/ L(1)
    \/ \E this \in 1..Len(heap), f \in WrapperSelectors : WrapperSelect(this, f)
    \/ \E this \in 1..Len(heap), p \in WrapperPredicates : WrapperWhere(this, p)
    \/ \E this \in 1..Len(heap), c \in Comparers : WrapperDistinct(this, c)
    \/ \E this \in 1..Len(heap), p \in WrapperPredicates : WrapperCount(this, p)
    \/ \E this \in 1..Len(heap) : WrapperToArray(this)
    \/ \E p \in WrapperPredicates : Count(1, p)
    \/ Len(heap) = 2 /\ \E g \in FreeStages : Construct(g)
    \/ \E id \in 1..Len(heap) : ~IsWrapper(id) /\ heap[id].src = 1 /\ ToArray(id)

SpecWrapper == InitWrapper /\ [][NextWrapper]_vars

(***************************************************************************)
(* The caller with two consumers of one stage: u = where(A, p) (object 3), *)
(* a = select(u, f) and b = select(u, g) (objects 4 and 5), each traversed *)
(* once, their pulls interleaved in any order.                             *)
(***************************************************************************)
\* A consumer starts its traversal of stage id, whatever the other is doing.
Consume(id) ==
    /\ Len(travs) < MaxTravs
    /\ \A t \in 1..Len(travs) : travs[t].obj # id
    /\ travs' = Append(travs, [obj |-> id, h |-> GetIterator(World, id),
                               out |-> <<>>, status |-> "open", err |-> ""])
    /\ UNCHANGED <<heap, calls, pulls, results>>

NextShared ==
    \/ Len(heap) = 2 /\ \E p \in ElementPredicates :
                            Construct(MkGen("where", 1, 0, p, 0, Undefined))
    \/ Len(heap) \in 3..4 /\ \E f \in ElementSelectors :
                               Construct(MkGen("select", 3, 0, f, 0, Undefined))
    \/ \E id \in 4..Len(heap) : Consume(id)
    \/ \E t \in 1..Len(travs) : Pull(t)

SpecShared == Init /\ [][NextShared]_vars

(***************************************************************************)
(* The caller that compares two sequences: the array A or B with an array  *)
(* or with a stage nothing has traversed yet.                              *)
(***************************************************************************)
PairComparers == {"strictEquals", "sameParity", "lessThan"}

SequenceEqual(a, b, c) ==
    /\ CanCall(b)
    /\ Returns("sequenceEqual", a, c, b, sequenceEqual(World, 0, a, b, c))

NextPairs ==
    \/ Len(heap) = 2 /\ \E g \in FirstStages : Construct(g)
    \/ \E a \in 1..2, b \in 1..Len(heap), c \in PairComparers : SequenceEqual(a, b, c)

SpecPairs == Init /\ [][NextPairs]_vars

(***************************************************************************)
(* The caller of the set operations: two arrays A and B that may hold the  *)
(* undefined value, up to two stages union, except, intersect (A, B, c) or *)
(* distinctHash(A, h), each materialized with toArray.  The caller passes  *)
(* sameParity and parity only where the elements are numbers.              *)
(***************************************************************************)
SetElems == {Num(1), Num(2), Num(3), Undefined}

SetArrays == UNION {[1..n -> SetElems] : n \in 0..MaxLen}

AllNumbers(id) == \A i \in 1..Len(heap[id].items) : heap[id].items[i].t = "number"

SetComparers ==
    {"strictEquals"} \cup (IF AllNumbers(1) /\ AllNumbers(2) THEN {"sameParity"} ELSE {})

SetHashes == {"constant"} \cup (IF AllNumbers(1) THEN {"parity"} ELSE {})

SetStages ==
    {MkGen(k, 1, 2, c, 0, Undefined) : k \in {"union", "except", "intersect"}, c \in SetComparers}
    \cup {MkGen("distinctHash", 1, 0, h, 0, Undefined) : h \in SetHashes}

InitSets ==
    /\ \E A \in SetArrays, B \in SetArrays : heap = <<MkArray(A), MkArray(B)>>
    /\ calls = <<>>
    /\ pulls = <<>>
    /\ travs = <<>>
    /\ results = <<>>

NextSets ==
    \/ Len(heap) < 4 /\ \E g \in SetStages : Construct(g)
    \/ \E id \in 3..Len(heap) : ToArray(id)

SpecSets == InitSets /\ [][NextSets]_vars

(***************************************************************************)
(* The caller with an infinite source: the source counts up from a start   *)
(* value; the caller calls first and any on it with the default predicate, *)
(* or makes take(source, n) and traverses that once.                       *)
(***************************************************************************)
MaxStart == 2

MaxTake == 3

InitInfinite ==
    /\ \E start \in 0..MaxStart : heap = <<MkGen("naturals", 0, 0, "", start, Undefined)>>
    /\ calls = <<>>
    /\ pulls = <<>>
    /\ travs = <<>>
    /\ results = <<>>

NextInfinite ==
    \/ Len(heap) = 1 /\ \E n \in 0..MaxTake : Construct(MkGen("take", 1, 0, "", n, Undefined))
    \/ travs = <<>> /\ \E id \in 2..Len(heap) : Iterate(id)
    \/ \E t \in 1..Len(travs) : Pull(t)
    \/ \E t \in 1..Len(travs) : Break(t)
    \/ \E t \in 1..Len(travs) : Leave(t)
    \/ First(1, defaultPredicate)
    \/ AnyElement(1, defaultPredicate)

SpecInfinite == InitInfinite /\ [][NextInfinite]_vars

(***************************************************************************)
(* The caller whose function fails: over arrays A and B of 1, 2 and 3 it   *)
(* passes failsOnTwo as predicate, selector, comparer or hash to one stage *)
(* that it traverses once or materializes, or to a terminal operation on A.*)
(* The sources are arrays, whose iterators have nothing to close.          *)
(***************************************************************************)
FailingStages ==
    {MkGen(k, 1, 0, "failsOnTwo", 0, Undefined) :
        k \in {"where", "select", "skipWhile", "takeWhile", "distinct", "distinctHash"}}
    \cup {MkGen(k, 1, 2, "failsOnTwo", 0, Undefined) :
             k \in {"except", "intersect", "union", "exceptHash", "intersectHash",
                    "unionHash"}}

InitFailing ==
    /\ \E A \in WrapperArrays, B \in WrapperArrays : heap = <<MkArray(A), MkArray(B)>>
    /\ calls = <<>>
    /\ pulls = <<>>
    /\ travs = <<>>
    /\ results = <<>>

NextFailing ==
    \/ Len(heap) = 2 /\ \E g \in FailingStages : Construct(g)
    \/ travs = <<>> /\ \E id \in 3..Len(heap) : Iterate(id)
    \/ \E t \in 1..Len(travs) : Pull(t)
    \/ \E t \in 1..Len(travs) : Break(t)
    \/ \E t \in 1..Len(travs) : Leave(t)
    \/ \E id \in 3..Len(heap) : ToArray(id)
    \/ FirstOrUndefined(1, "failsOnTwo")
    \/ First(1, "failsOnTwo")
    \/ LastOrUndefined(1, "failsOnTwo")
    \/ SingleOrUndefined(1, "failsOnTwo")
    \/ AnyElement(1, "failsOnTwo")
    \/ Min(1, "failsOnTwo")
    \/ SequenceEqual(1, 2, "failsOnTwo")

SpecFailing == InitFailing /\ [][NextFailing]_vars

(***************************************************************************)
(* Claims checked under Spec: one stage over the arrays A (object 1) and B *)
(* (object 2), traversed by the caller.                                    *)
(***************************************************************************)
IsStage(id, kind) ==
    /\ id \in 1..Len(heap)
    /\ heap[id].kind = kind
    /\ heap[heap[id].src].type = "array"

\* The traversals of object id, in the order they were started.
TraversalsOf(id) == {t \in 1..Len(travs) : travs[t].obj = id}

FirstTraversal(t) == \A u \in 1..Len(travs) : travs[u].obj = travs[t].obj => t <= u

\* The elements of items that satisfy p, in order (p is given no index).
RECURSIVE Filtered(_, _)
Filtered(items, p) ==
    IF items = <<>> THEN <<>>
    ELSE IF ApplyPredicate(p, Head(items), Undefined)
         THEN <<Head(items)>> \o Filtered(Tail(items), p)
         ELSE Filtered(Tail(items), p)

\* The pulls object `by` made on object `from` that delivered an element.
Delivered(by, from) ==
    Cardinality({k \in 1..Len(pulls) :
                    pulls[k].by = by /\ pulls[k].from = from /\ pulls[k].got})

\* C1: a where stage built once and traversed twice yields the same elements
\* on both traversals, also when the first traversal was abandoned after a
\* strict prefix: the second traversal yields the full result.
C1_RetraversalYieldsFullResult ==
    \A id \in 1..Len(heap) : IsStage(id, "where") =>
        \A t \in TraversalsOf(id) :
            travs[t].status = "done" =>
                travs[t].out = Filtered(heap[heap[id].src].items, heap[id].fn)

\* C2: a complete traversal of take(src, n) is delivered at most n elements
\* of src; take(src, 0) is delivered none.
C2_TakePullsAtMostN ==
    \A id \in 1..Len(heap) : IsStage(id, "take") =>
        \A t \in TraversalsOf(id) :
            travs[t].status = "done" => Delivered(id, heap[id].src) <= heap[id].n

\* C3: constructing a stage calls no caller-supplied function and pulls no
\* element of a source: as long as nothing has pulled the stage, the stage has
\* made no call and no pull.
C3_ConstructionIsLazy ==
    \A id \in 1..Len(heap) :
        (heap[id].type = "generator"
           /\ \A k \in 1..Len(pulls) : pulls[k].from # id)
        => /\ \A k \in 1..Len(calls) : calls[k].by # id
           /\ \A k \in 1..Len(pulls) : pulls[k].by # id
           /\ heap[id].st = "suspendedStart"

\* A stage that takes a caller's function has been built and a traversal of it
\* started, and nothing has been pulled yet.
C3_Witness ==
    \E id \in 1..Len(heap) :
        /\ heap[id].type = "generator"
        /\ heap[id].fn # ""
        /\ TraversalsOf(id) # {}
        /\ pulls = <<>>
        /\ calls = <<>>

\* C4: the complete first traversal of select(src, f) has the length of src
\* and its i-th element is f(src[i], i), i the zero-based position.
C4_SelectPassesElementAndIndex ==
    \A id \in 1..Len(heap) : IsStage(id, "select") =>
        \A t \in TraversalsOf(id) :
            (travs[t].status = "done" /\ FirstTraversal(t)) =>
                LET items == heap[heap[id].src].items IN
                /\ Len(travs[t].out) = Len(items)
                /\ \A i \in 1..Len(items) :
                       travs[t].out[i] = ApplySelector(heap[id].fn, items[i], Num(i - 1))

(***************************************************************************)
(* Claims checked under SpecCompose: stages over A (object 1) and B        *)
(* (object 2), materialized by toArray.                                    *)
(***************************************************************************)
\* The results of toArray on object id.
ArraysOf(id) ==
    {k \in 1..Len(results) : results[k].op = "toArray" /\ results[k].src = id}

\* C5: for an array A and 0 <= n <= |A|, the elements of take(A, n) followed
\* by the elements of skip(A, n) are exactly A, in order.
C5_TakeThenSkipIsWhole ==
    \A s \in 1..Len(heap), t \in 1..Len(heap) :
        (/\ heap[s].kind = "take" /\ heap[t].kind = "skip"
         /\ heap[s].src = 1 /\ heap[t].src = 1
         /\ heap[s].n = heap[t].n
         /\ heap[s].n <= Len(heap[1].items))
        => \A j \in ArraysOf(s), k \in ArraysOf(t) :
               results[j].array \o results[k].array = heap[1].items

\* take(A, n) and skip(A, n) with 0 < n < |A| have both been materialized.
C5_Witness ==
    \E s \in 1..Len(heap), t \in 1..Len(heap) :
        /\ heap[s].kind = "take" /\ heap[t].kind = "skip"
        /\ heap[s].src = 1 /\ heap[t].src = 1
        /\ heap[s].n = heap[t].n
        /\ heap[s].n > 0
        /\ heap[s].n < Len(heap[1].items)
        /\ ArraysOf(s) # {}
        /\ ArraysOf(t) # {}

\* The elements of a sequence for which f gives the value of the mapping.
RECURSIVE Mapped(_, _)
Mapped(items, f) ==
    IF items = <<>> THEN <<>>
    ELSE <<ApplySelector(f, Head(items), Undefined)>> \o Mapped(Tail(items), f)

\* The first occurrences of the elements of items, up to the comparer c.
RECURSIVE Deduplicated(_, _)
Deduplicated(items, c) ==
    IF items = <<>> THEN <<>>
    ELSE LET front == SubSeq(items, 1, Len(items) - 1)
             e == items[Len(items)]
         IN IF \E i \in 1..Len(front) : ApplyComparer(c, front[i], e)
            THEN Deduplicated(front, c)
            ELSE Append(Deduplicated(front, c), e)

\* The elements of items in reverse position order.
Reversed(items) == [i \in 1..Len(items) |-> items[Len(items) - i + 1]]

\* The finite sequence an array or a stage over an array stands for.
ElementsOf(id) ==
    LET o == heap[id]
        items == heap[o.src].items
    IN CASE o.type = "array" -> o.items
         [] o.kind = "take" -> SubSeq(items, 1, IF o.n < Len(items) THEN o.n ELSE Len(items))
         [] o.kind = "select" -> Mapped(items, o.fn)
         [] o.kind = "where" -> Filtered(items, o.fn)
         [] o.kind = "distinct" -> Deduplicated(items, o.fn)
         [] o.kind = "skip" -> SubSeq(items, o.n + 1, Len(items))
         [] o.kind = "distinctHash" -> Deduplicated(items, "strictEquals")
         [] o.kind = "reverse" -> Reversed(items)

\* The elements a of A for which no element b of B has c(b, a), in A's order.
RECURSIVE Without(_, _, _)
Without(A, B, c) ==
    IF A = <<>> THEN <<>>
    ELSE IF \E i \in 1..Len(B) : ApplyComparer(c, B[i], Head(A))
         THEN Without(Tail(A), B, c)
         ELSE <<Head(A)>> \o Without(Tail(A), B, c)

\* C9: traversing except(A, B, c), B an array or a lazy stage nothing has
\* traversed yet, yields in A's order exactly the elements a of A for which
\* no element b of B has c(b, a).
C9_ExceptYieldsElementsNotInSecond ==
    \A k \in 1..Len(results) :
        LET id == results[k].src IN
        (/\ results[k].op = "toArray"
         /\ heap[id].kind = "except"
         /\ \A j \in 1..(k - 1) : results[j].src # heap[id].src2)
        => results[k].array =
               Without(heap[1].items, ElementsOf(heap[id].src2), heap[id].fn)

(***************************************************************************)
(* Claims checked under SpecTerminal: a terminal operation applied to an   *)
(* array or to a stage that passes an array through.                       *)
(***************************************************************************)
\* The positions of the elements of items that satisfy p.
Matches(items, p) ==
    {i \in 1..Len(items) : ApplyPredicate(p, items[i], Undefined)}

Least(S) == CHOOSE i \in S : \A j \in S : i <= j

Greatest(S) == CHOOSE i \in S : \A j \in S : j <= i

\* The errors that say no element qualified, and the one that says several did.
EmptySequenceErrors ==
    {"empty sequence", "sequence contains no element that satisfies specified predicate"}

MultipleMatchError ==
    "sequence contains more than one element that satisfies specified predicate"

\* C6: elementAt(s, i) returns the element at position i when 0 <= i < |s|,
\* whatever its value (0, false and "" included), and fails only when i is out
\* of range; elementAtOrUndefined(s, i) returns the same element in range and
\* undefined out of range.
C6_ElementAtReturnsAnyElementInRange ==
    \A k \in 1..Len(results) :
        LET r == results[k]
            s == Input(r.src)
            inRange == 0 <= r.n /\ r.n < Len(s)
        IN /\ r.op = "elementAt" =>
                 IF inRange THEN r.err = "" /\ r.value = s[r.n + 1] ELSE r.err # ""
           /\ r.op = "elementAtOrUndefined" =>
                 /\ r.err = ""
                 /\ r.value = IF inRange THEN s[r.n + 1] ELSE Undefined

\* C7: single(s, p) returns the matching element when exactly one element
\* satisfies p, fails with the empty-sequence error when none does and with
\* the multiple-match error when two or more do; singleOrUndefined(s, p)
\* differs only in returning undefined when none does.
C7_SingleByNumberOfMatches ==
    \A k \in 1..Len(results) :
        LET r == results[k]
            s == Input(r.src)
            m == Matches(s, r.fn)
        IN r.op \in {"single", "singleOrUndefined"} =>
              CASE Cardinality(m) = 1 -> r.err = "" /\ r.value = s[Least(m)]
                [] Cardinality(m) >= 2 -> r.err = MultipleMatchError
                [] OTHER -> IF r.op = "single"
                            THEN r.err \in EmptySequenceErrors
                            ELSE r.err = "" /\ r.value = Undefined

\* C8: first(s, p) and last(s, p) fail with the empty-sequence error exactly
\* when no element of s satisfies p; when some element does (the undefined
\* value included) first returns the earliest and last the latest such
\* element; firstOrUndefined and lastOrUndefined return the same element, or
\* undefined when none qualifies.
C8_FirstLastByQualifyingElement ==
    \A k \in 1..Len(results) :
        LET r == results[k]
            s == Input(r.src)
            m == Matches(s, r.fn)
        IN /\ r.op \in {"first", "firstOrUndefined"} /\ m # {} =>
                 r.err = "" /\ r.value = s[Least(m)]
           /\ r.op \in {"last", "lastOrUndefined"} /\ m # {} =>
                 r.err = "" /\ r.value = s[Greatest(m)]
           /\ r.op \in {"first", "last"} /\ m = {} => r.err \in EmptySequenceErrors
           /\ r.op \in {"firstOrUndefined", "lastOrUndefined"} /\ m = {} =>
                 r.err = "" /\ r.value = Undefined

\* C10: on a non-empty sequence max returns the greatest projected value and
\* min the least one, also when every projected value is negative or zero.
C10_MaxMinOfProjectedValues ==
    \A k \in 1..Len(results) :
        LET r == results[k]
            s == Input(r.src)
            projected == {ApplySelector(r.fn, s[i], Undefined).n : i \in 1..Len(s)}
        IN (r.op \in {"max", "min"} /\ s # <<>>) =>
              /\ r.err = ""
              /\ r.value = Num(IF r.op = "max" THEN Greatest(projected)
                                               ELSE Least(projected))

\* The numbers of the model, Number.MIN_VALUE and Number.MAX_VALUE included.
Numbers ==
    {v \in TerminalElems : v.t = "number"} \cup {NumberMinValue, NumberMaxValue}

\* C11: max over an empty sequence does not fail and returns the least
\* representable number, a value no number is below; min over an empty
\* sequence does not fail and returns the greatest representable number.
C11_MaxMinOfEmptySequence ==
    \A k \in 1..Len(results) :
        LET r == results[k] IN
        (r.op \in {"max", "min"} /\ Input(r.src) = <<>>) =>
            /\ r.err = ""
            /\ r.op = "max" => \A v \in Numbers : ~NumberLess(v, r.value)
            /\ r.op = "min" => \A v \in Numbers : ~NumberLess(r.value, v)

\* The calls the library's caller position made to the function fn.
CallsOf(fn) == {k \in 1..Len(calls) : calls[k].by = 0 /\ calls[k].fn = fn}

\* C19: any(source, p) returns true exactly when some element satisfies p
\* (false on an empty source), and it stops at the first satisfying element:
\* p is called on, and the source is pulled for, no later element.
C19_AnyStopsAtFirstMatch ==
    (Len(results) = 1 /\ results[1].op = "any") =>
        LET r == results[1]
            s == Input(r.src)
            m == Matches(s, r.fn)
            reached == IF m = {} THEN Len(s) ELSE Least(m)
        IN /\ r.err = ""
           /\ r.value = Bool(m # {})
           /\ Cardinality(CallsOf(r.fn)) = reached
           /\ Delivered(0, r.src) = reached
           /\ \A k \in CallsOf(r.fn) : calls[k].a = s[k]

\* any met an element that satisfies p before the end of the source.
C19_Witness ==
    /\ Len(results) = 1
    /\ results[1].op = "any"
    /\ results[1].value = Bool(TRUE)
    /\ Matches(Input(results[1].src), results[1].fn) # {}
    /\ Least(Matches(Input(results[1].src), results[1].fn)) < Len(Input(results[1].src))

\* The left fold of fn over items from seed.
RECURSIVE FoldLeft(_, _, _)
FoldLeft(fn, seed, items) ==
    IF items = <<>> THEN seed
    ELSE FoldLeft(fn, ApplyAccumulator(fn, seed, Head(items)), Tail(items))

\* C20: aggregate(source, fn) fails with the empty-sequence error on an empty
\* source and otherwise returns the left fold seeded with the first element;
\* aggregateWithSeed(source, seed, fn) returns seed, without calling fn, on an
\* empty source and the left fold from seed otherwise.
C20_AggregateIsLeftFold ==
    (Len(results) = 1 /\ results[1].op \in {"aggregate", "aggregateWithSeed"}) =>
        LET r == results[1]
            s == Input(r.src)
        IN IF r.op = "aggregate"
           THEN IF s = <<>>
                THEN r.err \in EmptySequenceErrors
                ELSE r.err = "" /\ r.value = FoldLeft(r.fn, Head(s), Tail(s))
           ELSE /\ r.err = ""
                /\ r.value = FoldLeft(r.fn, Num(r.n), s)
                /\ s = <<>> => CallsOf(r.fn) = {}

\* aggregate folded a sequence of two different numbers with a function that
\* does not commute.
C20_Witness ==
    /\ Len(results) = 1
    /\ results[1].op = "aggregate"
    /\ results[1].fn = "subtract"
    /\ Len(Input(results[1].src)) = 2
    /\ Input(results[1].src)[1] # Input(results[1].src)[2]
    /\ results[1].err = ""

(***************************************************************************)
(* Further claims checked under Spec.                                      *)
(***************************************************************************)
Shorter(A, B) == IF Len(A) < Len(B) THEN Len(A) ELSE Len(B)

\* C17: zip(A, B, r) yields exactly min(|A|, |B|) elements, the i-th being
\* r(A[i], B[i]), and nothing more once either source is exhausted.
C17_ZipPairsUpToTheShorter ==
    \A id \in 1..Len(heap) : IsStage(id, "zip") =>
        \A t \in TraversalsOf(id) :
            (travs[t].status = "done" /\ FirstTraversal(t)) =>
                LET A == heap[heap[id].src].items
                    B == heap[heap[id].src2].items
                IN /\ Len(travs[t].out) = Shorter(A, B)
                   /\ \A i \in 1..Shorter(A, B) :
                          travs[t].out[i] = ApplyResultSelector(heap[id].fn, A[i], B[i])

\* A zip of two non-empty arrays of different lengths has been traversed to
\* its end.
C17_Witness ==
    \E id \in 1..Len(heap), t \in 1..Len(travs) :
        /\ IsStage(id, "zip")
        /\ travs[t].obj = id
        /\ travs[t].status = "done"
        /\ FirstTraversal(t)
        /\ Len(heap[heap[id].src].items) # Len(heap[heap[id].src2].items)
        /\ Len(travs[t].out) > 0

(***************************************************************************)
(* Further claims checked under SpecCompose, and C18 under SpecPairs.      *)
(***************************************************************************)
\* C16: for an array A of small integers and an injective hash, distinct(A)
\* with the default comparer and distinctHash(A, hash) yield the same elements
\* in the same order: each value once, at the position of its first occurrence.
C16_DistinctAndDistinctHashAgree ==
    \A s \in 1..Len(heap), t \in 1..Len(heap) :
        (/\ heap[s].kind = "distinct" /\ heap[s].fn = "strictEquals"
         /\ heap[t].kind = "distinctHash" /\ heap[t].fn = "valueOf"
         /\ heap[s].src = 1 /\ heap[t].src = 1)
        => \A j \in ArraysOf(s), k \in ArraysOf(t) :
               /\ results[j].array = results[k].array
               /\ results[j].array = Deduplicated(heap[1].items, "strictEquals")

\* distinct and distinctHash have both been materialized over an array that
\* holds a value twice.
C16_Witness ==
    \E s \in 1..Len(heap), t \in 1..Len(heap) :
        /\ heap[s].kind = "distinct"
        /\ heap[t].kind = "distinctHash"
        /\ ArraysOf(s) # {}
        /\ ArraysOf(t) # {}
        /\ Len(heap[1].items) = 2
        /\ heap[1].items[1] = heap[1].items[2]

\* The positions, up to the shorter length, where c(A[i], B[i]) fails.
Mismatches(A, B, c) == {i \in 1..Shorter(A, B) : ~ApplyComparer(c, A[i], B[i])}

\* C18: sequenceEqual(A, B, c) returns true exactly when |A| = |B| and
\* c(A[i], B[i]) holds at every position; it returns false at the first
\* position where the pair compares unequal or one sequence alone is
\* exhausted, and compares no later pair.
C18_SequenceEqualPairwise ==
    (Len(results) = 1 /\ results[1].op = "sequenceEqual") =>
        LET r == results[1]
            A == ElementsOf(r.src)
            B == ElementsOf(r.n)
            m == Mismatches(A, B, r.fn)
        IN /\ r.err = ""
           /\ r.value = Bool(Len(A) = Len(B) /\ m = {})
           /\ Cardinality(CallsOf(r.fn)) = IF m = {} THEN Shorter(A, B) ELSE Least(m)
           /\ \A k \in CallsOf(r.fn) :
                  LET i == Cardinality({j \in CallsOf(r.fn) : j <= k})
                  IN calls[k].a = A[i] /\ calls[k].b = B[i]

\* sequenceEqual met an unequal pair before the last position.
C18_Witness ==
    /\ Len(results) = 1
    /\ results[1].op = "sequenceEqual"
    /\ Shorter(ElementsOf(results[1].src), ElementsOf(results[1].n)) = 2
    /\ 1 \in Mismatches(ElementsOf(results[1].src), ElementsOf(results[1].n),
                        results[1].fn)
    /\ results[1].value = Bool(FALSE)

(***************************************************************************)
(* Claims checked under SpecWrapper.                                       *)
(***************************************************************************)
\* C12: a terminal method of the wrapper returns what the free function
\* returns: L(s).count(p) equals count(s, p) for every predicate p, and
\* L(s).toArray() equals toArray(s).
C12_WrapperTerminalEqualsFreeFunction ==
    \A j \in 1..Len(results), k \in 1..Len(results) :
        LET rw == results[j]
            rf == results[k]
        IN (/\ IsWrapper(rw.src)
            /\ heap[rw.src].kind = "L"
            /\ rf.src = heap[rw.src].src
            /\ rw.fn = rf.fn)
           => /\ (rw.op = "L.count" /\ rf.op = "count") =>
                    rw.err = rf.err /\ rw.value = rf.value
              /\ (rw.op = "toArray" /\ rf.op = "toArray") =>
                    rw.err = rf.err /\ rw.array = rf.array

\* The stage is what the free function named by the wrapper's method makes of
\* the array the wrapper's L(array) holds, with the argument the caller gave.
FreeCounterpart(stage, wrapper) ==
    /\ ~IsWrapper(stage)
    /\ IsWrapper(wrapper)
    /\ heap[wrapper].src # stage
    /\ heap[wrapper].src2 # 0
    /\ heap[heap[wrapper].src2].kind = "L"
    /\ heap[stage].kind = heap[wrapper].kind
    /\ heap[stage].src = heap[heap[wrapper].src2].src
    /\ heap[stage].fn = heap[wrapper].fn

\* C13: traversing the wrapper L(s).op(args) yields the elements traversing
\* op(s, args) yields, for op among select, where and distinct: L(s).distinct(c)
\* yields what distinct(s, c) yields for every comparer c.
C13_WrapperStageEqualsFreeStage ==
    \A j \in 1..Len(results), k \in 1..Len(results) :
        (/\ {j, k} = {1, 2}
         /\ results[j].op = "toArray"
         /\ results[k].op = "toArray"
         /\ FreeCounterpart(results[k].src, results[j].src))
        => results[j].array = results[k].array

\* The wrapper `derived` was made from `this` by transformation methods.
RECURSIVE DerivedFrom(_, _)
DerivedFrom(derived, this) ==
    /\ heap[derived].src2 # 0
    /\ \/ heap[derived].src2 = this
       \/ DerivedFrom(heap[derived].src2, this)

\* What traversing a wrapper that nothing has touched yields.
RECURSIVE WrapperElements(_)
WrapperElements(id) ==
    LET o == heap[id] IN
    CASE o.kind = "L" -> heap[o.src].items
      [] o.kind = "select" -> Mapped(WrapperElements(o.src2), o.fn)
      [] o.kind = "where" -> Filtered(WrapperElements(o.src2), o.fn)
      [] o.kind = "distinct" ->
            Deduplicated(WrapperElements(o.src2), defaultEqualityComparer)

\* C14: a transformation method leaves the wrapper it is called on unaffected:
\* after wrappers derived from w have been created and traversed, the first
\* traversal of w itself yields what w yields when nothing was derived from it.
C14_DerivedWrapperLeavesOriginal ==
    \A k \in 1..Len(results) :
        LET this == results[k].src IN
        (/\ results[k].op = "toArray"
         /\ IsWrapper(this)
         /\ \A j \in 1..(k - 1) :
               /\ results[j].op = "toArray"
               /\ IsWrapper(results[j].src)
               /\ DerivedFrom(results[j].src, this))
        => results[k].array = WrapperElements(this)

(***************************************************************************)
(* The claim checked under SpecShared.                                     *)
(***************************************************************************)
\* C15: two stages built over the same upstream stage u = where(src, p) and
\* pulled in any interleaving each yield what they would yield as the only
\* consumer of u: select(u, f) yields f of every element of src that
\* satisfies p, in order.
C15_InterleavedConsumersAreIsolated ==
    \A t \in 1..Len(travs) :
        LET id == travs[t].obj
            u == heap[id].src
        IN (/\ travs[t].status = "done"
            /\ heap[id].kind = "select"
            /\ heap[u].kind = "where")
           => travs[t].out =
                 Mapped(Filtered(heap[heap[u].src].items, heap[u].fn), heap[id].fn)

(***************************************************************************)
(* Claims about skipWhile, takeWhile and defaultIfEmpty, checked under     *)
(* Spec.                                                                   *)
(***************************************************************************)
\* The first position of items whose element fails p, called with the element
\* and its zero-based position; Len(items) + 1 when no element fails.
FailPos(items, p) ==
    LET failing == {i \in 1..Len(items) : ~ApplyPredicate(p, items[i], Num(i - 1))}
    IN IF failing = {} THEN Len(items) + 1 ELSE Least(failing)

\* The calls object id made, in order.
CallsBy(id) == SelectSeq(calls, LAMBDA c : c.by = id)

\* The calls of p on the elements of items at the positions 1..n, in order,
\* each with the zero-based position.
CallsOnPrefix(id, p, items, n) ==
    [i \in 1..n |-> [by |-> id, fn |-> p, a |-> items[i], b |-> Num(i - 1)]]

\* A complete first traversal of stage id of the given kind over an array.
CompleteFirst(t, id, kind) ==
    /\ IsStage(id, kind)
    /\ travs[t].obj = id
    /\ travs[t].status = "done"
    /\ FirstTraversal(t)

\* C23: in a traversal of skipWhile(source, p), p is called only on the
\* elements of the dropped prefix and on the first element that fails it, each
\* time with the element's zero-based position; every element from the first
\* failure on is yielded, in order, without p being called again.
C23_SkipWhileTestsOnlyThePrefix ==
    \A id \in 1..Len(heap), t \in 1..Len(travs) : CompleteFirst(t, id, "skipWhile") =>
        LET items == heap[heap[id].src].items
            k == FailPos(items, heap[id].fn)
        IN /\ travs[t].out = SubSeq(items, k, Len(items))
           /\ CallsBy(id) = CallsOnPrefix(id, heap[id].fn, items,
                                          IF k <= Len(items) THEN k ELSE Len(items))

\* skipWhile met an element that fails p and, after it, yielded an element
\* that satisfies p.
C23_Witness ==
    \E id \in 1..Len(heap), t \in 1..Len(travs) :
        /\ CompleteFirst(t, id, "skipWhile")
        /\ LET items == heap[heap[id].src].items
               k == FailPos(items, heap[id].fn)
           IN \E j \in (k + 1)..Len(items) :
                 ApplyPredicate(heap[id].fn, items[j], Num(j - 1))

\* C24: takeWhile(source, p) yields the longest prefix of source whose
\* elements all satisfy p, called with element and zero-based position; after
\* the first element that fails p it yields nothing more, does not call p
\* again and pulls no further element of source.
C24_TakeWhileStopsAtFirstFailure ==
    \A id \in 1..Len(heap), t \in 1..Len(travs) : CompleteFirst(t, id, "takeWhile") =>
        LET items == heap[heap[id].src].items
            k == FailPos(items, heap[id].fn)
            reached == IF k <= Len(items) THEN k ELSE Len(items)
        IN /\ travs[t].out = SubSeq(items, 1, k - 1)
           /\ CallsBy(id) = CallsOnPrefix(id, heap[id].fn, items, reached)
           /\ Delivered(id, heap[id].src) = reached

\* takeWhile stopped at an element that fails p while a later element
\* satisfies p.
C24_Witness ==
    \E id \in 1..Len(heap), t \in 1..Len(travs) :
        /\ CompleteFirst(t, id, "takeWhile")
        /\ LET items == heap[heap[id].src].items
               k == FailPos(items, heap[id].fn)
           IN \E j \in (k + 1)..Len(items) :
                 ApplyPredicate(heap[id].fn, items[j], Undefined)

\* C26: defaultIfEmpty(source, d) yields the single element d when source is
\* empty and otherwise the elements of source, in order, without d;
\* undefinedIfEmpty(source) does the same with undefined for d.
C26_DefaultOnlyIfEmpty ==
    \A id \in 1..Len(heap), t \in 1..Len(travs) :
        LET items == heap[heap[id].src].items IN
        /\ CompleteFirst(t, id, "defaultIfEmpty") =>
              travs[t].out = IF items = <<>> THEN <<heap[id].dflt>> ELSE items
        /\ CompleteFirst(t, id, "undefinedIfEmpty") =>
              travs[t].out = IF items = <<>> THEN <<Undefined>> ELSE items

\* defaultIfEmpty over a non-empty array has been traversed to its end.
C26_Witness ==
    \E id \in 1..Len(heap), t \in 1..Len(travs) :
        /\ CompleteFirst(t, id, "defaultIfEmpty")
        /\ heap[heap[id].src].items # <<>>

(***************************************************************************)
(* A further claim checked under SpecTerminal.                             *)
(***************************************************************************)
\* C29: lastOrUndefined returns the same result for a list passed as an array
\* (the backward scan) and as a non-array sequence of the same elements (the
\* forward scan): in both cases the last element that satisfies p, or
\* undefined when none does.
C29_LastOrUndefinedArrayOrNot ==
    \A k \in 1..Len(results) :
        LET r == results[k]
            s == Input(r.src)
            m == Matches(s, r.fn)
        IN r.op = "lastOrUndefined" =>
              /\ r.err = ""
              /\ r.value = IF m = {} THEN Undefined ELSE s[Greatest(m)]
              /\ r.value = lastOrUndefinedForArray(
                               [heap |-> <<MkArray(s)>>, calls |-> <<>>, pulls |-> <<>>,
                                       thrown |-> ""],
                               0, [obj |-> 1, pos |-> Len(s)], r.fn).value

\* lastOrUndefined scanned a non-array sequence in which two different elements
\* satisfy p.
C29_Witness ==
    \E k \in 1..Len(results) :
        /\ results[k].op = "lastOrUndefined"
        /\ heap[results[k].src].type = "generator"
        /\ LET s == Input(results[k].src)
               m == Matches(s, results[k].fn)
           IN Cardinality(m) = 2 /\ s[1] # s[2]

(***************************************************************************)
(* A further claim checked under SpecCompose.                              *)
(***************************************************************************)
\* C25: reverse(s), s an array or a non-array sequence, yields the elements
\* of s in reverse position order, with the same length (nothing for an empty
\* s), and reversing twice gives back s.
C25_ReverseOfArrayOrSequence ==
    \A k \in 1..Len(results) :
        LET id == results[k].src
            s == heap[id].src
        IN (/\ results[k].op = "toArray"
            /\ heap[id].kind = "reverse"
            /\ \A j \in 1..(k - 1) : results[j].src # s)
           => /\ results[k].array = Reversed(ElementsOf(s))
              /\ Len(results[k].array) = Len(ElementsOf(s))
              /\ heap[s].kind = "reverse" => results[k].array = heap[heap[s].src].items

\* The reverse of the reverse of an array of two different elements has been
\* materialized.
C25_Witness ==
    \E k \in 1..Len(results) :
        LET id == results[k].src IN
        /\ results[k].op = "toArray"
        /\ heap[id].kind = "reverse"
        /\ heap[heap[id].src].kind = "reverse"
        /\ Len(results[k].array) = 2
        /\ results[k].array[1] # results[k].array[2]

(***************************************************************************)
(* Claims checked under SpecSets.                                          *)
(***************************************************************************)
KeepFirst(kept, e, c) ==
    IF \E i \in 1..Len(kept) : ApplyComparer(c, kept[i], e) THEN kept ELSE Append(kept, e)

\* items without every element that compares equal to one kept before it.
RECURSIVE FirstOccurrences(_, _)
FirstOccurrences(items, c) ==
    IF items = <<>> THEN <<>>
    ELSE KeepFirst(FirstOccurrences(SubSeq(items, 1, Len(items) - 1), c),
                   items[Len(items)], c)

\* The materialized results of the stages of one kind.
ArraysOfKind(kind) ==
    {k \in 1..Len(results) : results[k].op = "toArray" /\ heap[results[k].src].kind = kind}

\* C21: union(A, B, c) yields the elements of A in order, then those of B in
\* order, omitting every element that compares equal to one already yielded;
\* no two yielded elements compare equal, and every element of A and B
\* compares equal to some yielded element.
C21_UnionYieldsFirstOccurrences ==
    \A k \in ArraysOfKind("union") :
        LET c == heap[results[k].src].fn
            AB == heap[1].items \o heap[2].items
            U == results[k].array
        IN /\ U = FirstOccurrences(AB, c)
           /\ \A i, j \in 1..Len(U) : i # j => ~ApplyComparer(c, U[i], U[j])
           /\ \A i \in 1..Len(AB) : \E j \in 1..Len(U) : ApplyComparer(c, U[j], AB[i])

\* A union has omitted an element of B equal to one of A and kept another.
C21_Witness ==
    \E k \in ArraysOfKind("union") :
        /\ Len(heap[1].items) = 2
        /\ Len(heap[2].items) = 2
        /\ Len(results[k].array) = 3
        /\ results[k].array[3] = heap[2].items[2]

\* The elements of items at the positions in P, in order.
RECURSIVE Picked(_, _)
Picked(items, P) ==
    IF items = <<>> THEN <<>>
    ELSE LET front == Picked(SubSeq(items, 1, Len(items) - 1), P) IN
         IF Len(items) \in P THEN Append(front, items[Len(items)]) ELSE front

\* The positions of A whose element some element of B compares equal to.
FoundIn(A, B, c) == {i \in 1..Len(A) : \E j \in 1..Len(B) : ApplyComparer(c, B[j], A[i])}

FirstOfHash(items, h) ==
    {i \in 1..Len(items) :
        \A j \in 1..(i - 1) : ApplyHash(h, items[j]) # ApplyHash(h, items[i])}

\* C27: distinctHash yields, in source order, exactly the elements that are
\* the first in the sequence to have their hash value: every hash value that
\* occurs in the source is represented by exactly one yielded element.
C27_DistinctHashFirstPerHashValue ==
    \A k \in ArraysOfKind("distinctHash") :
        LET h == heap[results[k].src].fn
            A == heap[1].items
            D == results[k].array
        IN /\ D = Picked(A, FirstOfHash(A, h))
           /\ \A i, j \in 1..Len(D) : i # j => ApplyHash(h, D[i]) # ApplyHash(h, D[j])

(***************************************************************************)
(* A claim checked under SpecInfinite.                                     *)
(***************************************************************************)
\* The pulls object `by` has made from object `from`.
PullsFrom(by, from) == {k \in 1..Len(pulls) : pulls[k].by = by /\ pulls[k].from = from}

\* C28: over an infinite source, a full traversal of take(source, n) ends
\* after yielding exactly the first n elements, and first(source) and
\* any(source) with the default predicate return after a bounded number of
\* pulls: none of them keeps pulling the source.
C28_InfiniteSourceIsLeftInTime ==
    /\ (travs # <<>> /\ results = <<>>) =>
          LET t == travs[1]
              n == heap[t.obj].n
          IN /\ Len(t.out) <= n
             /\ \A i \in 1..Len(t.out) : t.out[i] = Num(heap[1].n + i - 1)
             /\ Cardinality(PullsFrom(t.obj, 1)) <= n + 1
             /\ Cardinality(PullsFrom(0, t.obj)) > n => t.status = "done"
             /\ t.status = "done" => Len(t.out) = n /\ heap[1].st = "completed"
    /\ (results # <<>> /\ PullsFrom(2, 1) = {}) =>
          /\ results[1].err = ""
          /\ results[1].value = IF results[1].op = "first" THEN Num(heap[1].n) ELSE Bool(TRUE)
          /\ Cardinality(PullsFrom(0, 1)) = 1
          /\ heap[1].st = "completed"

\* A traversal of take(source, 3) has ended with three elements yielded.
C28_Witness ==
    /\ travs # <<>>
    /\ results = <<>>
    /\ travs[1].status = "done"
    /\ Len(travs[1].out) = 3

(***************************************************************************)
(* A claim checked under SpecFailing.                                      *)
(***************************************************************************)
\* The calls in which the caller's function failed.
FailedCalls == {k \in 1..Len(calls) : Fails(calls[k].fn, calls[k].a, calls[k].b)}

\* The pulls and the terminal operations that gave the caller the failure.
FailedPulls == {t \in 1..Len(travs) : travs[t].status = "threw"}

FailedResults == {k \in 1..Len(results) : results[k].err = Failure}

\* C22: when a selector, predicate, comparer or hash of the caller fails
\* during a pull or a terminal operation, that same failure reaches the
\* caller of the pull or operation: nothing catches it, replaces it by
\* another error, calls the function again or returns a value instead.
C22_FailureReachesTheCaller ==
    /\ Cardinality(FailedCalls) = Cardinality(FailedPulls) + Cardinality(FailedResults)
    /\ \A t \in 1..Len(travs) :
           /\ travs[t].status = "threw" <=> travs[t].err # ""
           /\ travs[t].err \in {"", Failure}
    /\ \A k \in FailedResults : results[k].value = Undefined /\ results[k].array = <<>>
    /\ \A k \in FailedCalls :
           calls[k].by # 0 =>
               /\ heap[calls[k].by].st = "completed"
               /\ \A j \in (k + 1)..Len(calls) : calls[j].by # calls[k].by

\* A traversal delivered one element and then the function's failure, and a
\* terminal operation failed with it too.
C22_Witness ==
    /\ \E t \in FailedPulls : Len(travs[t].out) = 1 /\ travs[t].err = Failure
    /\ FailedResults # {}

====
